---- MODULE Spec2Model ----
(***************************************************************************)
(* Model of the screen-state classification engine and the readiness       *)
(* orchestrator of jnj-android (backend/python/src):                       *)
(*   waydroid/weston.py        WestonController                            *)
(*   apps/rok/rok_controller.py GameController                             *)
(*   apps/rok/actions.py       RoKActions                                  *)
(*   android/adb_simple.py     SimpleADBController                         *)
(*   servers/main.py           POST /api/rok/start                         *)
(*                                                                         *)
(* Time is simulated: only time.sleep advances it, in tenths of a second.  *)
(* Every answer of the outside world (process liveness, xwininfo, the      *)
(* captured frame, adb output) is drawn afresh at the step that asks.      *)
(***************************************************************************)
EXTENDS Integers, Sequences, FiniteSets, TLC

(***************************************************************************)
(* Python helpers                                                          *)
(***************************************************************************)

\* dict.get(key, default): an optional entry is <<>> (absent) or <<v>>.
Get(o, d) == IF o = <<>> THEN d ELSE o[1]

\* len(range(lo, hi, step)) for step > 0
RangeLen(r) == IF r.max > r.min THEN (r.max - r.min + r.step - 1) \div r.step ELSE 0

\* list(range(lo, hi, step)) as a sequence
PyRange(r) == [n \in 1..RangeLen(r) |-> r.min + (n - 1) * r.step]

\* [(a, b) for a in xs for b in ys]: the order of two nested for loops
Nested(xs, ys) ==
    [k \in 1..(Len(xs) * Len(ys)) |->
        <<xs[((k - 1) \div Len(ys)) + 1], ys[((k - 1) % Len(ys)) + 1]>>]

Max3(c) == IF c[1] >= c[2] /\ c[1] >= c[3] THEN c[1]
           ELSE IF c[2] >= c[3] THEN c[2] ELSE c[3]

Min3(c) == IF c[1] <= c[2] /\ c[1] <= c[3] THEN c[1]
           ELSE IF c[2] <= c[3] THEN c[2] ELSE c[3]

(***************************************************************************)
(* Frames: a decoded screenshot of w x h pixels with at least three        *)
(* channels; px holds the pixels that differ from the background bg.       *)
(***************************************************************************)

\* screenshot.getpixel((x, y))
Pixel(f, p) == IF p \in DOMAIN f.px THEN f.px[p] ELSE f.bg

\* Mutant: the bounds test with the far edges included
InBoundsEdge(f, p) == 0 <= p[1] /\ p[1] <= f.w /\ 0 <= p[2] /\ p[2] <= f.h

\* 0 <= x < screenshot.size[0] and 0 <= y < screenshot.size[1]
InBounds(f, p) == 0 <= p[1] /\ p[1] < f.w /\ 0 <= p[2] /\ p[2] < f.h

\* lo <= r <= hi and lo <= g <= hi and lo <= b <= hi, per channel
InRange(c, cr) ==
    /\ cr.r[1] <= c[1] /\ c[1] <= cr.r[2]
    /\ cr.g[1] <= c[2] /\ c[2] <= cr.g[2]
    /\ cr.b[1] <= c[3] /\ c[3] <= cr.b[2]

\* Mutant: the colourful test with both comparisons made non-strict
ColorfulAtLeast(c) == Max3(c) >= 100 /\ (Max3(c) - Min3(c)) >= 30

\* max(r, g, b) > 100 and (max(r, g, b) - min(r, g, b)) > 30
Colorful(c) == Max3(c) > 100 /\ (Max3(c) - Min3(c)) > 30

\* One sampling loop: a point out of the frame is skipped; a point in the
\* frame counts in total and, when its colour is in the range, in matched.
\* The result is <<matched, total>>.
Sample(f, pts, cr) ==
    LET inb == {k \in 1..Len(pts) : InBounds(f, pts[k])}
    IN  <<Cardinality({k \in inb : InRange(Pixel(f, pts[k]), cr)}), Cardinality(inb)>>

\* The icon-band loop counts colourful pixels instead of a colour range.
IconSample(f, pts) ==
    LET inb == {k \in 1..Len(pts) : InBounds(f, pts[k])}
    IN  <<Cardinality({k \in inb : Colorful(Pixel(f, pts[k]))}), Cardinality(inb)>>

(***************************************************************************)
(* Configuration document ui_weston.json and its per-field defaults        *)
(***************************************************************************)

\* Default fallbacks of the black-screen rule
DefBlackRange == [min |-> -10, max |-> 11, step |-> 5]
DefBlackColor == [r |-> <<0, 10>>, g |-> <<0, 10>>, b |-> <<0, 10>>]
\* threshold.get("ratio", 0.8), as the fraction 4/5
DefBlackRatio == <<4, 5>>

\* Default fallbacks of the unlock-button rule
DefUnlockPos   == [x |-> 129, y |-> 104]
DefUnlockArea  == [width |-> 3, height |-> 3]
DefUnlockColor == [r |-> <<130, 145>>, g |-> <<125, 140>>, b |-> <<125, 135>>]
DefMinPixels   == 1

\* The configuration WestonController falls back to when the file cannot
\* be loaded, and its default geometry fallbacks
WestonDefGeom == [x |-> 0, y |-> 0, width |-> 1024, height |-> 600]
FallbackConfig ==
    [geom |-> <<WestonDefGeom>>, black_screen |-> <<>>, button_unlock |-> <<>>,
     unlock_sequence |-> <<>>]

\* WestonController._load_config: doc is <<>> when the file cannot be read
\* or parsed.
LoadConfig(file) == Get(file, FallbackConfig)

\* Mutant: the classifier keeps the configuration it holds
keep_config(cfg, file) == cfg

\* WestonController.reload_config: self.config = self._load_config()
reload_config(cfg, file) == LoadConfig(file)

(***************************************************************************)
(* WestonController.detect_weston_screen_state                             *)
(***************************************************************************)

\* range(min, max, step) x range(min, max, step) around the window centre
BlackPoints(cx, cy, det) ==
    LET offs == Nested(PyRange(Get(det.x_range, DefBlackRange)),
                       PyRange(Get(det.y_range, DefBlackRange)))
    IN  [k \in 1..Len(offs) |-> <<cx + offs[k][1], cy + offs[k][2]>>]

\* range(-(w // 2), (w // 2) + 1) x range(-(h // 2), (h // 2) + 1)
UnlockPoints(pos, area) ==
    LET offs == Nested(
            PyRange([min |-> -(area.width \div 2), max |-> (area.width \div 2) + 1, step |-> 1]),
            PyRange([min |-> -(area.height \div 2), max |-> (area.height \div 2) + 1, step |-> 1]))
    IN  [k \in 1..Len(offs) |-> <<pos.x + offs[k][1], pos.y + offs[k][2]>>]

\* x in range(x + int(w * 0.3), x + int(w * 0.7), 20), dy in range(-20, 21, 10)
\* around y + int(h * 0.7)
IconPoints(g) ==
    LET xs == PyRange([min |-> g.x + ((g.width * 3) \div 10),
                       max |-> g.x + ((g.width * 7) \div 10), step |-> 20])
        dys == PyRange([min |-> -20, max |-> 21, step |-> 10])
        offs == Nested(xs, dys)
    IN  [k \in 1..Len(offs) |-> <<offs[k][1], g.y + ((g.height * 7) \div 10) + offs[k][2]>>]

\* Mutant: the ratio test made non-strict (>=)
RatioAtLeast(cnt, ratio) == cnt[1] * ratio[2] >= ratio[1] * cnt[2]

\* black_count / total_samples > ratio_threshold, in exact arithmetic
RatioAbove(cnt, ratio) == cnt[1] * ratio[2] > ratio[1] * cnt[2]

\* Check 1: the black-screen rule of a configured black_screen element
BlackFires(f, cx, cy, det) ==
    LET cnt == Sample(f, BlackPoints(cx, cy, det), Get(det.color_range, DefBlackColor))
    IN  cnt[2] > 0 /\ RatioAbove(cnt, Get(det.ratio, DefBlackRatio))

\* Check 2: the unlock-button rule of a configured button_unlock element
UnlockCount(f, el) ==
    Sample(f, UnlockPoints(Get(el.position, DefUnlockPos), Get(el.sample_area, DefUnlockArea)),
           Get(el.color_range, DefUnlockColor))

\* Mutant: the count test made strict (>)
UnlockFiresStrict(f, el) ==
    LET cnt == UnlockCount(f, el)
    IN  cnt[2] > 0 /\ cnt[1] > Get(el.min_pixels, DefMinPixels)

UnlockFires(f, el) ==
    LET cnt == UnlockCount(f, el)
    IN  cnt[2] > 0 /\ cnt[1] >= Get(el.min_pixels, DefMinPixels)

\* Check 3: colourful pixels of the icon band
IconCount(f, g) == IconSample(f, IconPoints(g))

IconLoaded(f, g) ==
    LET cnt == IconCount(f, g)
    IN  cnt[2] > 0 /\ RatioAbove(cnt, <<1, 10>>)

\* The window geometry the classifier uses: the one xwininfo reports, else
\* the configured default, else the hard-coded fallback.
WestonGeometry(cfg, xwin) == Get(xwin, Get(cfg.geom, WestonDefGeom))

\* Mutant: a classifier without its except clause
OnExceptionRaise == "raised"

\* except Exception as e: ... return "unknown"
OnException == "unknown"

\* Mutant: the session check (Check 0) moved behind the black-screen rule
detect_session_late(in) ==
    IF ~in.weston THEN "unknown"
    ELSE IF in.threw THEN "unknown"
    ELSE IF in.capture = <<>> THEN "unknown"
    ELSE LET f  == in.capture[1]
             g  == WestonGeometry(in.cfg, in.xwin)
             cx == g.x + (g.width \div 2)
             cy == g.y + (g.height \div 2)
         IN  IF in.cfg.black_screen # <<>> /\ BlackFires(f, cx, cy, in.cfg.black_screen[1])
                  THEN "black"
             ELSE IF ~in.session THEN "empty"
             ELSE IF in.cfg.button_unlock # <<>> /\ UnlockFires(f, in.cfg.button_unlock[1])
                  THEN "lock"
             ELSE IF IconLoaded(f, g) THEN "loaded"
             ELSE "loading"

\* Mutant: the unlock-button rule (Check 2) tried before the black-screen rule
detect_lock_first(in) ==
    IF ~in.weston THEN "unknown"
    ELSE IF in.threw THEN "unknown"
    ELSE IF in.capture = <<>> THEN "unknown"
    ELSE LET f  == in.capture[1]
             g  == WestonGeometry(in.cfg, in.xwin)
             cx == g.x + (g.width \div 2)
             cy == g.y + (g.height \div 2)
         IN  IF ~in.session THEN "empty"
             ELSE IF in.cfg.button_unlock # <<>> /\ UnlockFires(f, in.cfg.button_unlock[1])
                  THEN "lock"
             ELSE IF in.cfg.black_screen # <<>> /\ BlackFires(f, cx, cy, in.cfg.black_screen[1])
                  THEN "black"
             ELSE IF IconLoaded(f, g) THEN "loaded"
             ELSE "loading"

\* in: [weston, threw, cfg, xwin, capture, session]
\*   weston   is_weston_running()
\*   threw    a step before Check 0 raised (xwininfo or import timed out,
\*            the image could not be decoded)
\*   cfg      the configuration just reloaded
\*   xwin     <<geometry>> of the 'Weston Compositor' line, <<>> without one
\*   capture  <<frame>>, <<>> when import's return code is not 0
\*   session  is_waydroid_running()
detect_weston_screen_state(in) ==
    IF ~in.weston THEN "unknown"
    ELSE IF in.threw THEN OnException
    ELSE IF in.capture = <<>> THEN "unknown"
    ELSE LET f  == in.capture[1]
             g  == WestonGeometry(in.cfg, in.xwin)
             cx == g.x + (g.width \div 2)
             cy == g.y + (g.height \div 2)
         IN  IF ~in.session THEN "empty"
             ELSE IF in.cfg.black_screen # <<>> /\ BlackFires(f, cx, cy, in.cfg.black_screen[1])
                  THEN "black"
             ELSE IF in.cfg.button_unlock # <<>> /\ UnlockFires(f, in.cfg.button_unlock[1])
                  THEN "lock"
             ELSE IF IconLoaded(f, g) THEN "loaded"
             ELSE "loading"

(***************************************************************************)
(* UIConfig: the accessors GameController reads its configuration through  *)
(***************************************************************************)

\* _configs[key] = {} when the file is missing or cannot be parsed
EmptyWestonConfig ==
    [geom |-> <<>>, black_screen |-> <<>>, button_unlock |-> <<>>, unlock_sequence |-> <<>>]

EmptyBlack == [x_range |-> <<>>, y_range |-> <<>>, color_range |-> <<>>, ratio |-> <<>>]

EmptyUnlock == [position |-> <<>>, sample_area |-> <<>>, color_range |-> <<>>, min_pixels |-> <<>>]

EmptyMenu == [position |-> <<>>, offsets |-> <<>>, color_range |-> <<>>, min_pixels |-> <<>>]

\* UIConfig._load_all_configs, for ui_weston.json
UILoadWeston(file) == Get(file, EmptyWestonConfig)

\* UIConfig._load_all_configs, for the menu_main button of ui_rok_button.json
UILoadMenu(file) == Get(file, EmptyMenu)

\* UIConfig.get_weston_window_geometry
UIDefGeom == [x |-> 5, y |-> 29, width |-> 1024, height |-> 600]
get_weston_window_geometry(u) == Get(u.weston.geom, UIDefGeom)

\* UIConfig.get_unlock_button_position
get_unlock_button_position(u) == Get(Get(u.weston.button_unlock, EmptyUnlock).position, DefUnlockPos)

\* UIConfig.get_unlock_button_detection
get_unlock_button_detection(u) == Get(u.weston.button_unlock, EmptyUnlock)

\* UIConfig.get_black_screen_detection
get_black_screen_detection(u) == Get(u.weston.black_screen, EmptyBlack)

\* UIConfig.get_menu_button_position
DefMenuPos == [x |-> 990, y |-> 530]
get_menu_button_position(u) == Get(u.menu.position, DefMenuPos)

\* UIConfig.get_tap_to_start_position
DefTapPos == [x |-> 512, y |-> 284]
get_tap_to_start_position(u) == Get(u.tap_to_start, DefTapPos)

(***************************************************************************)
(* GameController.is_weston_locked                                         *)
(***************************************************************************)

\* in: [threw, xwin, capture]
\*   threw    a step raised (xwininfo or import timed out, bad image)
\*   xwin     <<geometry>> of the 'Weston Compositor' line, <<>> without one
\*   capture  <<frame>>, <<>> when import's return code is not 0
is_weston_locked(u, in) ==
    IF in.threw THEN FALSE
    ELSE IF in.capture = <<>> THEN FALSE
    ELSE LET f  == in.capture[1]
             g  == Get(in.xwin, get_weston_window_geometry(u))
             cx == g.x + (g.width \div 2)
             cy == g.y + (g.height \div 2)
             bd == get_black_screen_detection(u)
             ud == get_unlock_button_detection(u)
             gc == Sample(f, UnlockPoints(get_unlock_button_position(u),
                                          Get(ud.sample_area, DefUnlockArea)),
                          Get(ud.color_range, DefUnlockColor))
         IN  IF BlackFires(f, cx, cy, bd) THEN TRUE
             ELSE IF gc[2] > 0 /\ gc[1] >= Get(ud.min_pixels, DefMinPixels) THEN TRUE
             ELSE FALSE

(***************************************************************************)
(* GameController.is_in_main_game / RoKUIDetector.is_in_main_game          *)
(***************************************************************************)

DefMenuOffsets == <<-2, 0, 2>>
DefMenuColor   == [r |-> <<0, 50>>, g |-> <<60, 140>>, b |-> <<110, 170>>]

\* for dx in offsets: for dy in offsets
MenuPoints(pos, offsets) ==
    LET offs == Nested(offsets, offsets)
    IN  [k \in 1..Len(offs) |-> <<pos.x + offs[k][1], pos.y + offs[k][2]>>]

MenuCount(u, f) ==
    Sample(f, MenuPoints(get_menu_button_position(u), Get(u.menu.offsets, DefMenuOffsets)),
           Get(u.menu.color_range, DefMenuColor))

\* Mutant: the probe without the test that a sample was taken
MenuProbeAny(u, shot) ==
    /\ shot # <<>>
    /\ MenuCount(u, shot[1])[1] >= Get(u.menu.min_pixels, DefMinPixels)

\* Check 3 of is_in_main_game: a screenshot was taken and the probe of the
\* menu marker reached its threshold.
MenuProbe(u, shot) ==
    /\ shot # <<>>
    /\ LET cnt == MenuCount(u, shot[1])
       IN  cnt[2] > 0 /\ cnt[1] >= Get(u.menu.min_pixels, DefMinPixels)

\* Mutant: any focused window passes for the game
FocusedAny(activity) == activity # "none"

\* activity and self.PACKAGE_NAME in activity
Focused(activity) == activity = "game"

\* in: [running, activity, shot, threw]
\*   running   adb.is_app_running(PACKAGE_NAME)
\*   activity  "none" (None), "game" (names the package) or "other"
\*   shot      <<frame>>, <<>> when adb.screenshot() returns None
\*   threw     a step raised
is_in_main_game(u, in) ==
    IF in.threw THEN FALSE
    ELSE IF ~in.running THEN FALSE
    ELSE IF ~Focused(in.activity) THEN FALSE
    ELSE MenuProbe(u, in.shot)

(***************************************************************************)
(* State                                                                   *)
(***************************************************************************)

VARIABLES
    doc,          \* ui_weston.json on disk: <<document>>, <<>> when unreadable
    config,       \* WestonController.config
    cin,          \* what the outside world answers to one call of the classifier,
                  \* of the lock check or of the main-game check
    out,          \* the state the classifier returned last, "none" before
    ui,           \* GameController.ui_config (UIConfig._configs)
    pc,           \* the statement the run is at
    stack,        \* return labels of the calls in progress
    rv,           \* the value the last call returned
    req,          \* the arguments of GameController.start_game (GameStartRequest)
    status,       \* main.py: weston_running, waydroid_running, screen_state
    success,      \* main.py: what game_controller.start_game returned
    i,            \* counter of the loop the run is in
    j,            \* counter of the loop nested in it
    t,            \* simulated time since the timed operation in progress was called
    t0,           \* start_time of the tap sequence, on the clock of t
    result,       \* "none" while the run lasts, then "success" or "failure"
    act,          \* the input command the last step issued, NoAct if none
    impl,         \* which tap sequence runs: "GameController" or "RoKActions"
    adbLost,      \* the adb transport is lost (and stays lost)
    cancel,       \* an external caller has asked the run to stop
    seen,         \* what the run has observed so far (for the properties)
    smp,          \* the sampling loop in progress: the offset it is at (k) and
                  \* its counters (matched, total)
    btn           \* the menu_main element of ui_rok_button.json on disk:
                  \* <<element>>, <<>> when the file is missing or no JSON

cls  == <<doc, config, cin, out>>
ctl  == <<pc, stack, rv, req, status, success, i, j, t, t0, result, act, impl>>
ctl_but_pc == <<stack, rv, req, status, success, i, j, t, t0, result, act, impl>>
env  == <<adbLost, cancel, btn>>
vars == <<doc, config, cin, out, ui, pc, stack, rv, req, status, success,
          i, j, t, t0, result, act, impl, adbLost, cancel, seen, smp, btn>>

\* No sampling loop has begun
NoSmp == [k |-> 1, matched |-> 0, total |-> 0]

NoAct == [kind |-> "none", x |-> 0, y |-> 0]

NoStatus == [weston |-> FALSE, waydroid |-> FALSE, screen |-> "unknown"]

\* What a run has observed so far:
\*   confirmed     a main-game check of the run returned True
\*   startFailed   a start operation of the compositor or session returned False
\*   launched      the app launch command was issued
\*   lostAtLaunch  the adb transport was already lost when the launch step began
\*   why           the return statement GameController.start_game left through
\*   lockedAtCall  what the lock check reported when _unlock_weston was called
\*   everLocked    a lock check made inside _unlock_weston reported locked
\*   steps         unlock steps executed by the current call of _unlock_weston
\*   checks        lock checks made inside the current call of _unlock_weston
\*   lastLocked    what the last of them reported
\*   scn           how far the classifications of the run follow a scenario, up
\*                 to the test of GameController.start_game that the game runs:
\*                 "A1" the first status reports no container, "A2" the status
\*                 after its start is 'empty'; "B1" the first status is 'black'
\*                 with compositor and container up, "B2" the status after the
\*                 wake tap is 'lock', "B" the one after that is 'loaded'
\*   fresh         the classifier was called since the last sleep that follows
\*                 a start of the container session
\*   panel         the overlay in the current round of the watch: "none" (not
\*                 detected), "detected", "closed" (gone at the re-verification)
\*                 or "again" (still shown at the re-verification)
\*   backs         BACK inputs issued in the current round of the watch, or
\*                 in the round before while the next one has not begun
\*   passed        the last main-game check of the watch returned True
\*   first         <<[cin, doc, ui, out, held]>> once the first of two calls
\*                 is over: what it was answered, the file and the UIConfig
\*                 it ran on, what it returned, and the configuration the
\*                 controller held when the second call began
\*   old           <<UIConfig._configs>> as it was when the reload began
\*   polled        what the last poll of the loading wait was answered:
\*                 "loaded", "black", "lock", or "other"
\*   sawLock       the screen handling of the run was answered 'lock': as the
\*                 state it dispatches on, by the poll that ended the loading
\*                 wait, or after the wake tap
\*   atLaunch      the screen state the handling ended with, while the launch
\*                 step it is followed by begins
\*   sent          <<n>> when the overlay watch is run on its own: the BACK
\*                 inputs it has issued; <<>> inside a run
\*   looked        an overlay check was made
\*   probes        main-game checks made by the tap sequence in progress, or
\*                 by the one that has just returned
\*   sampled       the last lock check of _unlock_weston read a captured
\*                 frame: the capture succeeded and nothing raised
\*   gates         the gates the main-game check in progress has evaluated,
\*                 in order, each with what it was answered
\*   alive         <<b>> when a start operation was called on its own while
\*                 its target was alive (b) or not, <<>> inside a run
NoSeen ==
    [confirmed |-> FALSE, startFailed |-> FALSE, launched |-> FALSE,
     lostAtLaunch |-> FALSE, why |-> "none",
     lockedAtCall |-> FALSE, everLocked |-> FALSE, steps |-> 0,
     checks |-> 0, lastLocked |-> FALSE, alive |-> <<>>,
     panel |-> "none", backs |-> 0, passed |-> FALSE,
     scn |-> "none", fresh |-> FALSE, first |-> <<>>, old |-> <<>>,
     polled |-> "none", sawLock |-> FALSE, atLaunch |-> "none", sent |-> <<>>, looked |-> FALSE, probes |-> 0,
     gates |-> <<>>, sampled |-> FALSE]

\* s without what it holds about a call of _unlock_weston
NoUnlock(s) ==
    [s EXCEPT !.lockedAtCall = FALSE, !.everLocked = FALSE, !.steps = 0,
              !.checks = 0, !.lastLocked = FALSE, !.sampled = FALSE]

DefReq == [wait_for_ready |-> TRUE, auto_tap |-> TRUE, force_restart |-> FALSE]

(***************************************************************************)
(* Bounded inputs of the classifier                                        *)
(***************************************************************************)

\* Colours
Grey    == <<128, 128, 128>>
Black0  == <<0, 0, 0>>
Black10 == <<10, 10, 10>>
Dark11  == <<10, 10, 11>>
Green   == <<135, 130, 130>>
Red     == <<200, 50, 50>>
Blue    == <<25, 100, 140>>
\* Colours at the edges of the colourful test: brightest channel 100,
\* spread 30, and the dullest colour that passes
Dull100  == <<100, 50, 50>>
Flat101  == <<101, 71, 71>>
Vivid101 == <<101, 70, 70>>

\* How many samples of each rule a generated frame paints at most
MaxBlackPainted == 25
MaxGreenPainted == 2
MaxIconPainted  == 11

FirstN(seq, n) == {seq[k] : k \in 1..(IF n < Len(seq) THEN n ELSE Len(seq))}

\* A w x h frame on background bg whose first m black-rule samples (of the
\* default grid around the centre of the default window) have colour mc,
\* whose first g unlock-button samples are green and whose first c
\* icon-band samples are colourful.
MkFrame(w, h, bg, m, mc, g, c) ==
    LET B == FirstN(BlackPoints(512, 300, EmptyBlack), m)
        G == FirstN(UnlockPoints(DefUnlockPos, DefUnlockArea), g)
        I == FirstN(IconPoints(WestonDefGeom), c)
    IN  [w |-> w, h |-> h, bg |-> bg,
         px |-> [p \in B \cup G \cup I |->
                    IF p \in B THEN mc ELSE IF p \in G THEN Green ELSE Red]]

\* A frame of width w on a grey background whose first c icon-band samples
\* have colour col
IconFrame(w, c, col) ==
    [MkFrame(w, 700, Grey, 0, Black0, 0, c) EXCEPT !.px = [p \in DOMAIN @ |-> col]]

\* The width that leaves the last of the 21 columns of the icon band of the
\* default window out of the frame: 100 of its 105 samples are inside
CutIconWidth == WestonDefGeom.x + ((WestonDefGeom.width * 3) \div 10) + 400

\* Frame sizes: the whole desktop (1100 x 700), a desktop that cuts the
\* black-rule grid after its third column (513 x 700), one that holds no
\* sample of any rule (100 x 100), and the icon frames.
Frames ==
    {MkFrame(1100, 700, Grey, m, Black10, g, 0) : m \in 0..MaxBlackPainted, g \in {0, 1}}
    \cup {MkFrame(1100, 700, Grey, MaxBlackPainted, Dark11, 0, 0)}
    \cup {MkFrame(513, 700, Grey, m, Black0, 0, 0) : m \in 0..MaxBlackPainted}
    \cup {MkFrame(1100, 700, bg, 0, Black0, g, c) :
            bg \in {Grey, Black0}, g \in 0..MaxGreenPainted,
            c \in {0, MaxIconPainted - 1, MaxIconPainted}}
    \cup {MkFrame(100, 100, bg, 0, Black0, 0, 0) : bg \in {Grey, Black0, Green, Red}}
    \cup {IconFrame(1100, MaxIconPainted, col) : col \in {Dull100, Flat101, Vivid101}}
    \cup {IconFrame(CutIconWidth, c, Red) : c \in {MaxIconPainted - 1, MaxIconPainted}}

\* Configured elements of the documents
CustomBlack ==
    [x_range |-> <<[min |-> -10, max |-> 11, step |-> 10]>>,
     y_range |-> <<[min |-> 0, max |-> 1, step |-> 1]>>,
     color_range |-> <<[r |-> <<0, 10>>, g |-> <<0, 10>>, b |-> <<0, 11>>]>>,
     ratio |-> <<<<1, 2>>>>]

MkDoc(b, u) ==
    <<[geom |-> <<WestonDefGeom>>, black_screen |-> b, button_unlock |-> u,
       unlock_sequence |-> <<>>]>>

\* The documents: unreadable, every default, an element missing, a custom
\* black-screen rule, min_pixels 0 and 2.
Docs ==
    {<<>>,
     MkDoc(<<EmptyBlack>>, <<EmptyUnlock>>),
     MkDoc(<<>>, <<EmptyUnlock>>),
     MkDoc(<<EmptyBlack>>, <<>>),
     MkDoc(<<CustomBlack>>, <<[EmptyUnlock EXCEPT !.min_pixels = <<0>>]>>),
     MkDoc(<<EmptyBlack>>, <<[EmptyUnlock EXCEPT !.min_pixels = <<2>>]>>)}

\* A frame that fires no rule, one that is black, one that shows the button
PlainFrames ==
    {MkFrame(1100, 700, Grey, 0, Black0, 0, 0), MkFrame(1100, 700, Black0, 0, Black0, 0, 0),
     MkFrame(1100, 700, Grey, 0, Black0, 1, 0)}

\* Every frame with everything up, and every failure with a few frames
ClsInputs ==
    [weston : {TRUE}, threw : {FALSE}, session : {TRUE},
     xwin : {<<>>, <<UIDefGeom>>}, capture : {<<f>> : f \in Frames}]
    \cup
    [weston : BOOLEAN, threw : BOOLEAN, session : BOOLEAN,
     xwin : {<<>>}, capture : {<<>>} \cup {<<f>> : f \in PlainFrames}]

(***************************************************************************)
(* The classifier called on its own                                        *)
(***************************************************************************)

IdleCtl ==
    /\ stack = <<>> /\ rv = FALSE /\ req = DefReq /\ status = NoStatus
    /\ success = FALSE /\ i = 0 /\ j = 0 /\ t = 0 /\ t0 = 0
    /\ result = "none" /\ act = NoAct /\ impl = "GameController"
    /\ adbLost = FALSE /\ cancel = FALSE /\ seen = NoSeen /\ smp = NoSmp /\ btn = <<>>

InitClassify ==
    /\ doc \in Docs
    /\ config = LoadConfig(doc)
    /\ cin \in ClsInputs
    /\ out = "none"
    /\ ui = [weston |-> UILoadWeston(doc), menu |-> EmptyMenu, tap_to_start |-> <<>>]
    /\ pc = "classify"
    /\ IdleCtl

\* One call of detect_weston_screen_state: the configuration is reloaded
\* first (when the compositor runs), then the rules are evaluated.
Detect ==
    /\ pc = "classify"
    /\ out = "none"
    /\ LET newcfg == IF cin.weston THEN reload_config(config, doc) ELSE config
       IN  /\ config' = newcfg
           /\ out' = detect_weston_screen_state(
                [weston |-> cin.weston, threw |-> cin.threw, cfg |-> newcfg,
                 xwin |-> cin.xwin, capture |-> cin.capture, session |-> cin.session])
    /\ UNCHANGED <<doc, cin, ui, ctl, env, seen, smp>>

NextClassify == Detect

SpecClassify == InitClassify /\ [][NextClassify]_vars

(***************************************************************************)
(* Calls, returns and the answers of the device                            *)
(***************************************************************************)

\* What no step of a run changes
fixed == <<doc, cin, out, ui, impl, smp, btn>>

Call(target, ret) == pc' = target /\ stack' = <<ret>> \o stack

Return(v) == pc' = Head(stack) /\ stack' = Tail(stack) /\ rv' = v

\* No classifier call is part of the operation
NoCin == [weston |-> FALSE, threw |-> FALSE, session |-> FALSE, xwin |-> <<>>, capture |-> <<>>]

Click(x, y) == [kind |-> "x11_click", x |-> x, y |-> y]

Tap(x, y) == [kind |-> "tap", x |-> x, y |-> y]

\* A 1024 x 568 screenshot of the device whose first n menu-marker samples
\* are blue
MenuShot(n) ==
    [w |-> 1024, h |-> 568, bg |-> Grey,
     px |-> [p \in FirstN(MenuPoints(DefMenuPos, DefMenuOffsets), n) |-> Blue]]

\* Without the transport adb.shell returns "": pidof finds no process,
\* dumpsys names no window and screencap yields no image.
LostMain == [running |-> FALSE, activity |-> "none", shot |-> <<>>, threw |-> FALSE]

\* What the device answers to one main-game check: no process, another
\* activity in front, no screenshot, no marker on the screenshot, the marker
MainInputs ==
    {LostMain,
     [running |-> TRUE, activity |-> "other", shot |-> <<MenuShot(1)>>, threw |-> FALSE],
     [running |-> TRUE, activity |-> "game", shot |-> <<>>, threw |-> FALSE],
     [running |-> TRUE, activity |-> "game", shot |-> <<MenuShot(0)>>, threw |-> FALSE],
     [running |-> TRUE, activity |-> "game", shot |-> <<MenuShot(1)>>, threw |-> FALSE]}

MainAnswers == IF adbLost THEN {LostMain} ELSE MainInputs

\* The state a main-game check with answer in leaves in seen
Checked(in) == [seen EXCEPT !.confirmed = @ \/ is_in_main_game(ui, in)]

(***************************************************************************)
(* GameController._perform_startup_taps and                                *)
(* RoKActions.perform_startup_taps                                         *)
(***************************************************************************)

\* Mutant: a schedule whose last checkpoint is missing
TapIntervalsShort == <<20, 30, 40, 50, 60, 70>>

\* tap_intervals, seconds from start_time
TapIntervals == <<20, 30, 40, 50, 60, 70, 80>>

\* wait_time = target_time - (time.time() - start_time), in tenths of a second
WaitTime(target, now, start) == (target * 10) - (now - start)

\* The window centre and the tap position read from the configuration
CenterClick(u) ==
    LET g == get_weston_window_geometry(u)
    IN  Click(g.x + (g.width \div 2), g.y + (g.height \div 2))

StartTap(u) ==
    LET p == get_tap_to_start_position(u)
    IN  Tap(p.x, p.y)

\* The click and the tap of the initial burst: GameController has them
\* hard-coded, RoKActions reads them from the configuration
BurstClick(im, u) == IF im = "GameController" THEN Click(517, 329) ELSE CenterClick(u)

BurstTap(im, u) == IF im = "GameController" THEN Tap(512, 284) ELSE StartTap(u)

\* for i in range(5): x11_click; sleep(0.5) -- and sleep(2) after the loop
TapBurstClick ==
    /\ pc = "tap_burst"
    /\ act' = BurstClick(impl, ui)
    /\ IF i + 1 < 5
       THEN i' = i + 1 /\ t' = t + 5 /\ pc' = pc
       ELSE i' = 0 /\ t' = t + 5 + 20 /\ pc' = "tap_initial"
    /\ UNCHANGED <<fixed, req, config, stack, rv, status, success, j, t0, result,
                   adbLost, cancel, seen>>

\* for i in range(3): tap; sleep(1) -- and start_time = time.time() after it
TapInitialTap ==
    /\ pc = "tap_initial"
    /\ act' = BurstTap(impl, ui)
    /\ t' = t + 10
    /\ IF i + 1 < 3
       THEN i' = i + 1 /\ t0' = t0 /\ pc' = pc
       ELSE i' = 1 /\ t0' = t + 10 /\ pc' = "tap_checkpoint"
    /\ UNCHANGED <<fixed, req, config, stack, rv, status, success, j, result,
                   adbLost, cancel, seen>>

\* for target_time in tap_intervals: the check before the checkpoint and the
\* computation of wait_time; i is the index of the checkpoint, j the part of
\* wait_time not slept yet.  After the last checkpoint: the final check.
TapCheckpoint ==
    /\ pc = "tap_checkpoint"
    /\ \E in \in MainAnswers :
        /\ seen' = [Checked(in) EXCEPT !.probes = @ + 1]
        /\ IF i > Len(TapIntervals)
           THEN Return(is_in_main_game(ui, in)) /\ j' = j
           ELSE IF is_in_main_game(ui, in)
           THEN Return(TRUE) /\ j' = j
           ELSE LET wait_time == WaitTime(TapIntervals[i], t, t0)
                IN  /\ j' = IF wait_time > 0 THEN wait_time ELSE 0
                    /\ pc' = IF wait_time > 0 THEN "tap_wait" ELSE "tap_click"
                    /\ UNCHANGED <<stack, rv>>
    /\ act' = NoAct
    /\ UNCHANGED <<fixed, req, config, status, success, i, t, t0, result, adbLost, cancel>>

\* for _ in range(int(wait_time)): check; sleep(1)
TapWaitTick ==
    /\ pc = "tap_wait"
    /\ j >= 10
    /\ \E in \in MainAnswers :
        /\ seen' = [Checked(in) EXCEPT !.probes = @ + 1]
        /\ IF is_in_main_game(ui, in)
           THEN Return(TRUE) /\ UNCHANGED <<j, t>>
           ELSE j' = j - 10 /\ t' = t + 10 /\ UNCHANGED <<pc, stack, rv>>
    /\ act' = NoAct
    /\ UNCHANGED <<fixed, req, config, status, success, i, t0, result, adbLost, cancel>>

\* time.sleep(wait_time % 1), then the X11 click of the checkpoint; sleep(0.3)
TapClick ==
    /\ pc \in {"tap_wait", "tap_click"}
    /\ j < 10
    /\ act' = CenterClick(ui)
    /\ t' = t + j + 3
    /\ j' = 0
    /\ pc' = "tap_tap"
    /\ UNCHANGED <<fixed, req, config, stack, rv, status, success, i, t0, result,
                   adbLost, cancel, seen>>

\* for i in range(3): tap; sleep(0.5) -- j counts the taps of the checkpoint
TapTap ==
    /\ pc = "tap_tap"
    /\ act' = StartTap(ui)
    /\ t' = t + 5
    /\ IF j + 1 < 3
       THEN j' = j + 1 /\ UNCHANGED <<i, pc>>
       ELSE j' = 0 /\ i' = i + 1 /\ pc' = "tap_checkpoint"
    /\ UNCHANGED <<fixed, req, config, stack, rv, status, success, t0, result,
                   adbLost, cancel, seen>>

perform_startup_taps ==
    \/ TapBurstClick
    \/ TapInitialTap
    \/ TapCheckpoint
    \/ TapWaitTick
    \/ TapClick
    \/ TapTap

\* One configuration with every default and one with a window and a tap
\* position of its own
TapUIs ==
    {[weston |-> EmptyWestonConfig, menu |-> EmptyMenu, tap_to_start |-> <<>>],
     [weston |-> [EmptyWestonConfig EXCEPT
                    !.geom = <<[x |-> 0, y |-> 0, width |-> 800, height |-> 480]>>],
      menu |-> EmptyMenu, tap_to_start |-> <<[x |-> 400, y |-> 240]>>]}

\* The tap sequence called on its own
InitTaps ==
    /\ doc = <<>> /\ config = FallbackConfig /\ out = "none"
    /\ cin = NoCin
    /\ ui \in TapUIs
    /\ stack = <<"returned">> /\ rv = FALSE /\ req = DefReq /\ status = NoStatus
    /\ success = FALSE /\ i = 0 /\ j = 0 /\ t = 0 /\ t0 = 0
    /\ result = "none" /\ act = NoAct
    /\ adbLost = FALSE /\ cancel = FALSE /\ seen = NoSeen
    /\ impl \in {"GameController", "RoKActions"}
    /\ smp = NoSmp /\ btn = <<>>
    /\ pc = "tap_burst"

NextTaps == perform_startup_taps

SpecTaps == InitTaps /\ [][NextTaps]_vars

(***************************************************************************)
(* GameController._unlock_weston                                           *)
(***************************************************************************)

\* unlock_sequence of ui_weston.json: steps of [action, target, wait_after]
\* (wait_after in tenths of a second, 0 when absent) and the retry policy
EmptySequence == [steps |-> <<>>, max_attempts |-> <<>>, verify_after_each |-> <<>>]

\* UIConfig.get_unlock_sequence
get_unlock_sequence(u) == Get(u.weston.unlock_sequence, EmptySequence)

\* retry_config.get("max_attempts", 2)
DefMaxAttempts == 2

\* Mutant: one attempt more than configured
MaxAttemptsAndOne(u) == Get(get_unlock_sequence(u).max_attempts, DefMaxAttempts) + 1

MaxAttempts(u) == Get(get_unlock_sequence(u).max_attempts, DefMaxAttempts)

\* Mutant: every attempt is verified, whatever the retry policy says
VerifyAlways(u) == TRUE

\* retry_config.get("verify_after_each", False)
VerifyAfterEach(u) == Get(get_unlock_sequence(u).verify_after_each, FALSE)

Steps(u) == get_unlock_sequence(u).steps

\* The desktop as one lock check finds it: plain, black, showing the unlock
\* button, or not captured
GreyDesk  == MkFrame(1100, 700, Grey, 0, Black0, 0, 0)
BlackDesk == MkFrame(1100, 700, Black0, 0, Black0, 0, 0)
LockDesk  == MkFrame(1100, 700, Grey, 0, Black0, 1, 0)
IconDesk  == MkFrame(1100, 700, Grey, 0, Black0, 0, 20)

LockInputs ==
    [threw : {FALSE}, xwin : {<<>>},
     capture : {<<GreyDesk>>, <<BlackDesk>>, <<LockDesk>>, <<>>}]
    \cup {[threw |-> TRUE, xwin |-> <<>>, capture |-> <<>>]}

\* The lock check answered in read a captured frame
Sampled(in) == ~in.threw /\ in.capture # <<>>

\* The state a lock check of _unlock_weston that reports locked leaves in seen
LockChecked(locked) ==
    [seen EXCEPT !.everLocked = @ \/ locked, !.checks = @ + 1, !.lastLocked = locked]

\* Mutant: the final check is made and its answer dropped
FinalAlways(locked) == TRUE

\* if not self.is_weston_locked(): return True -- else: return False
FinalResult(locked) == ~locked

\* The command one step dispatches
StepAct(u, step) ==
    IF step.action = "click" /\ step.target = "center" THEN CenterClick(u)
    ELSE IF step.action = "click" /\ step.target = "button_unlock"
         THEN Click(get_unlock_button_position(u).x, get_unlock_button_position(u).y)
    ELSE NoAct

\* for attempt in range(max_attempts): for step in steps: dispatch the step
\* and sleep wait_after; i is the attempt, j the number of steps done in it
UnlockStep ==
    /\ pc = "unlock"
    /\ i < MaxAttempts(ui)
    /\ j < Len(Steps(ui))
    /\ LET step == Steps(ui)[j + 1]
       IN  /\ act' = StepAct(ui, step)
           /\ t' = IF step.wait_after > 0 THEN t + step.wait_after ELSE t
    /\ j' = j + 1
    /\ seen' = [seen EXCEPT !.steps = @ + 1]
    /\ UNCHANGED <<fixed, req, config, pc, stack, rv, status, success, i, t0, result,
                   adbLost, cancel>>

\* The end of one attempt: verify if requested, return True when not locked
UnlockVerify ==
    /\ pc = "unlock"
    /\ i < MaxAttempts(ui)
    /\ j = Len(Steps(ui))
    /\ IF VerifyAfterEach(ui)
       THEN \E in \in LockInputs :
            /\ seen' = [LockChecked(is_weston_locked(ui, in)) EXCEPT !.sampled = Sampled(in)]
            /\ IF ~is_weston_locked(ui, in)
               THEN Return(TRUE) /\ UNCHANGED <<i, j>>
               ELSE i' = i + 1 /\ j' = 0 /\ UNCHANGED <<pc, stack, rv>>
       ELSE i' = i + 1 /\ j' = 0 /\ UNCHANGED <<pc, stack, rv, seen>>
    /\ act' = NoAct
    /\ UNCHANGED <<fixed, req, config, status, success, t, t0, result, adbLost, cancel>>

\* The final check after the attempts
UnlockFinal ==
    /\ pc = "unlock"
    /\ i >= MaxAttempts(ui)
    /\ \E in \in LockInputs :
        /\ seen' = [LockChecked(is_weston_locked(ui, in)) EXCEPT !.sampled = Sampled(in)]
        /\ Return(FinalResult(is_weston_locked(ui, in)))
    /\ act' = NoAct
    /\ UNCHANGED <<fixed, req, config, status, success, i, j, t, t0, result, adbLost, cancel>>

unlock_weston == UnlockStep \/ UnlockVerify \/ UnlockFinal

\* Unlock sequences: two clicks verified after each attempt, the same
\* replayed three times or the default number of times without verification,
\* no attempt at all, steps that dispatch nothing, and one attempt of one click.
TwoClicks ==
    <<[action |-> "click", target |-> "center", wait_after |-> 10],
      [action |-> "click", target |-> "button_unlock", wait_after |-> 20]>>

Sequences ==
    {<<>>,
     <<[steps |-> TwoClicks, max_attempts |-> <<>>, verify_after_each |-> <<TRUE>>]>>,
     <<[steps |-> TwoClicks, max_attempts |-> <<3>>, verify_after_each |-> <<>>]>>,
     <<[steps |-> TwoClicks, max_attempts |-> <<>>, verify_after_each |-> <<>>]>>,
     <<[steps |-> TwoClicks, max_attempts |-> <<0>>, verify_after_each |-> <<TRUE>>]>>,
     <<[steps |-> <<[action |-> "click", target |-> "other", wait_after |-> 0],
                    [action |-> "key", target |-> "center", wait_after |-> 5]>>,
        max_attempts |-> <<1>>, verify_after_each |-> <<FALSE>>]>>,
     <<[steps |-> <<[action |-> "click", target |-> "button_unlock", wait_after |-> 0]>>,
        max_attempts |-> <<1>>, verify_after_each |-> <<TRUE>>]>>}

UnlockUIs ==
    {[weston |-> [EmptyWestonConfig EXCEPT !.unlock_sequence = s, !.button_unlock = b],
      menu |-> EmptyMenu, tap_to_start |-> <<>>] :
        s \in Sequences,
        b \in {<<>>, <<[EmptyUnlock EXCEPT !.position = <<[x |-> 200, y |-> 200]>>]>>}}

\* The unlock sequencer called on its own, on a desktop whose lock check
\* reports lockedAtCall at the moment of the call
InitUnlock ==
    /\ doc = <<>> /\ config = FallbackConfig /\ out = "none" /\ cin = NoCin
    /\ ui \in UnlockUIs
    /\ stack = <<"returned">> /\ rv = FALSE /\ req = DefReq /\ status = NoStatus
    /\ success = FALSE /\ i = 0 /\ j = 0 /\ t = 0 /\ t0 = 0
    /\ result = "none" /\ act = NoAct /\ impl = "GameController" /\ smp = NoSmp /\ btn = <<>>
    /\ adbLost = FALSE /\ cancel = FALSE
    /\ \E in \in LockInputs : seen = [NoSeen EXCEPT !.lockedAtCall = is_weston_locked(ui, in)]
    /\ pc = "unlock"

NextUnlock == unlock_weston

SpecUnlock == InitUnlock /\ [][NextUnlock]_vars

(***************************************************************************)
(* WestonController.start_weston and start_waydroid,                       *)
(* GameController.start_waydroid                                           *)
(***************************************************************************)

StartFailed == [seen EXCEPT !.startFailed = TRUE]

\* The clock of a start operation, in tenths of a second: its sleeps are
\* counted when the operation is called on its own; inside a request nothing
\* reads them
Slept(d) == IF stack = <<"returned">> THEN t + d ELSE t

\* What the liveness check at the entry of a start operation answers
EntryLiveness == IF seen.alive = <<>> THEN BOOLEAN ELSE {seen.alive[1]}

\* start_weston: nothing to do when the compositor runs; else the process is
\* spawned (Popen may raise: the except branch returns False)
StartWeston ==
    /\ pc = "start_weston"
    /\ \E running \in EntryLiveness, spawned \in BOOLEAN :
        IF running THEN Return(TRUE) /\ seen' = seen
        ELSE IF ~spawned THEN Return(FALSE) /\ seen' = StartFailed
        ELSE pc' = "start_weston_poll" /\ UNCHANGED <<stack, rv, seen>>
    /\ i' = 0 /\ act' = NoAct
    /\ t' = 0
    /\ UNCHANGED <<fixed, req, config, status, success, j, t0, result, adbLost, cancel>>

\* for i in range(10): sleep(0.5); if is_weston_running(): sleep(1); move the
\* window; return True -- return False after the loop
StartWestonPoll ==
    /\ pc = "start_weston_poll"
    /\ \E running \in BOOLEAN :
        IF running
        THEN Return(TRUE) /\ i' = 0 /\ seen' = seen /\ t' = Slept(5 + 10)
        ELSE IF i + 1 < 10
        THEN i' = i + 1 /\ t' = Slept(5) /\ UNCHANGED <<pc, stack, rv, seen>>
        ELSE Return(FALSE) /\ i' = 0 /\ seen' = StartFailed /\ t' = Slept(5)
    /\ act' = NoAct
    /\ UNCHANGED <<fixed, req, config, status, success, j, t0, result, adbLost, cancel>>

\* WestonController.start_waydroid: nothing to do when the session runs;
\* False when the start script is missing (or Popen raises)
StartWaydroid ==
    /\ pc = "start_waydroid"
    /\ \E running \in EntryLiveness, script \in BOOLEAN :
        IF running THEN Return(TRUE) /\ seen' = seen
        ELSE IF ~script THEN Return(FALSE) /\ seen' = StartFailed
        ELSE pc' = "start_waydroid_poll" /\ UNCHANGED <<stack, rv, seen>>
    /\ i' = 0 /\ act' = NoAct
    /\ t' = 0
    /\ UNCHANGED <<fixed, req, config, status, success, j, t0, result, adbLost, cancel>>

\* for i in range(60): sleep(1); if is_waydroid_running(): sleep(5); return
\* True -- return False after the loop
StartWaydroidPoll ==
    /\ pc = "start_waydroid_poll"
    /\ \E running \in BOOLEAN :
        IF running
        THEN Return(TRUE) /\ i' = 0 /\ seen' = seen /\ t' = Slept(10 + 50)
        ELSE IF i + 1 < 60
        THEN i' = i + 1 /\ t' = Slept(10) /\ UNCHANGED <<pc, stack, rv, seen>>
        ELSE Return(FALSE) /\ i' = 0 /\ seen' = StartFailed /\ t' = Slept(10)
    /\ act' = NoAct
    /\ UNCHANGED <<fixed, req, config, status, success, j, t0, result, adbLost, cancel>>

\* GameController.start_waydroid: False when the start script is missing
GStartWaydroid ==
    /\ pc = "g_start_waydroid"
    /\ \E script \in BOOLEAN :
        IF ~script THEN Return(FALSE) /\ seen' = StartFailed
        ELSE pc' = "g_start_waydroid_poll" /\ UNCHANGED <<stack, rv, seen>>
    /\ i' = 0 /\ act' = NoAct
    /\ t' = 0
    /\ UNCHANGED <<fixed, req, config, status, success, j, t0, result, adbLost, cancel>>

\* for i in range(60): sleep(1); if "RUNNING" in status: sleep(5); if
\* adb.is_connected() or adb.connect(): return True -- the loop goes on when
\* adb does not connect; return False after the loop
GStartWaydroidPoll ==
    /\ pc = "g_start_waydroid_poll"
    /\ \E running \in BOOLEAN, connected \in (IF adbLost THEN {FALSE} ELSE BOOLEAN) :
        /\ t' = Slept(10 + (IF running THEN 50 ELSE 0))
        /\ IF running /\ connected
           THEN Return(TRUE) /\ i' = 0 /\ seen' = seen
           ELSE IF i + 1 < 60
           THEN i' = i + 1 /\ UNCHANGED <<pc, stack, rv, seen>>
           ELSE Return(FALSE) /\ i' = 0 /\ seen' = StartFailed
    /\ act' = NoAct
    /\ UNCHANGED <<fixed, req, config, status, success, j, t0, result, adbLost, cancel>>

\* WaydroidContainer.start(adb_controller): False when the start script is
\* missing, else the script is run
CStart ==
    /\ pc = "c_start"
    /\ \E script \in BOOLEAN, adb \in BOOLEAN :
        IF ~script THEN Return(FALSE) /\ seen' = StartFailed
        ELSE /\ pc' = IF adb THEN "c_start_poll_adb" ELSE "c_start_poll"
             /\ UNCHANGED <<stack, rv, seen>>
    /\ i' = 0 /\ act' = NoAct
    /\ t' = 0
    /\ UNCHANGED <<fixed, req, config, status, success, j, t0, result, adbLost, cancel>>

\* for i in range(60): sleep(1); if status.get("session") == "RUNNING":
\* sleep(5); return True, with an adb controller only once it is connected
CStartPoll ==
    /\ pc \in {"c_start_poll", "c_start_poll_adb"}
    /\ \E running \in BOOLEAN, connected \in (IF adbLost THEN {FALSE} ELSE BOOLEAN) :
        /\ t' = Slept(10 + (IF running THEN 50 ELSE 0))
        /\ IF running /\ (pc = "c_start_poll" \/ connected)
           THEN Return(TRUE) /\ i' = 0 /\ seen' = seen
           ELSE IF i + 1 < 60
           THEN i' = i + 1 /\ UNCHANGED <<pc, stack, rv, seen>>
           ELSE Return(FALSE) /\ i' = 0 /\ seen' = StartFailed
    /\ act' = NoAct
    /\ UNCHANGED <<fixed, req, config, status, success, j, t0, result, adbLost, cancel>>

\* A start operation called on its own, its target alive or not
InitStart ==
    /\ doc = <<>> /\ config = FallbackConfig /\ out = "none" /\ cin = NoCin
    /\ ui = [weston |-> EmptyWestonConfig, menu |-> EmptyMenu, tap_to_start |-> <<>>]
    /\ stack = <<"returned">> /\ rv = FALSE /\ req = DefReq /\ status = NoStatus
    /\ success = FALSE /\ i = 0 /\ j = 0 /\ t = 0 /\ t0 = 0
    /\ result = "none" /\ act = NoAct /\ impl = "GameController" /\ smp = NoSmp /\ btn = <<>>
    /\ adbLost \in BOOLEAN /\ cancel = FALSE
    /\ \E b \in BOOLEAN : seen = [NoSeen EXCEPT !.alive = <<b>>]
    /\ pc \in {"start_weston", "start_waydroid", "g_start_waydroid", "c_start"}

NextStart ==
    \/ StartWeston \/ StartWestonPoll \/ StartWaydroid \/ StartWaydroidPoll
    \/ GStartWaydroid \/ GStartWaydroidPoll \/ CStart \/ CStartPoll

SpecStart == InitStart /\ [][NextStart]_vars

(***************************************************************************)
(* GameController.start_game                                               *)
(***************************************************************************)

\* TIMEOUT_APP_START, seconds
TIMEOUT_APP_START == 30

\* Mutant: the final verification reports its failure
UnconfirmedFalse == FALSE

\* return True  # Return True anyway as game process is running
UnconfirmedReturn == TRUE

\* the negation of: while time.time() - start_time < timeout
TimedOut(elapsed, timeout) == ~(elapsed < timeout * 10)

Why(w) == [seen EXCEPT !.why = w]

\* What adb answers about the game: is_app_running and get_current_activity
AppAnswers ==
    IF adbLost THEN {[running |-> FALSE, activity |-> "none"]}
    ELSE [running : BOOLEAN, activity : {"none", "other", "game"}]

\* if not self.ensure_waydroid_running(): return False
GEnsure ==
    /\ pc = "g_ensure"
    /\ \E running \in BOOLEAN :
        IF running THEN pc' = "g_lock" /\ stack' = stack
        ELSE Call("g_start_waydroid", "g_ensure_ret")
    /\ seen' = [seen EXCEPT !.atLaunch = "none"]
    /\ act' = NoAct
    /\ UNCHANGED <<fixed, req, config, rv, status, success, i, j, t, t0, result,
                   adbLost, cancel>>

GEnsureRet ==
    /\ pc = "g_ensure_ret"
    /\ IF rv THEN pc' = "g_lock" /\ UNCHANGED <<stack, rv, seen>>
       ELSE Return(FALSE) /\ seen' = Why("no_session")
    /\ act' = NoAct
    /\ t' = 0
    /\ UNCHANGED <<fixed, req, config, status, success, i, j, t0, result, adbLost, cancel>>

\* Mutant: the sequencer is called whatever the lock check reports
LockTestAlways(locked) == TRUE

\* if self.is_weston_locked():
LockTest(locked) == locked

\* if self.is_weston_locked(): self._unlock_weston()
GLock ==
    /\ pc = "g_lock"
    /\ \E in \in LockInputs :
        /\ seen' = [NoUnlock(seen) EXCEPT !.lockedAtCall = is_weston_locked(ui, in)]
        /\ IF LockTest(is_weston_locked(ui, in))
           THEN Call("unlock", "g_running")
           ELSE pc' = "g_running" /\ stack' = stack
    /\ i' = 0 /\ j' = 0 /\ t' = 0 /\ act' = NoAct
    /\ UNCHANGED <<fixed, req, config, rv, status, success, t0, result, adbLost, cancel>>

\* if self.check_game_running() and not force_restart: ... return True
GRunning ==
    /\ pc = "g_running"
    /\ \E a \in AppAnswers :
        IF a.running /\ ~req.force_restart
        THEN /\ act' = IF Focused(a.activity) THEN NoAct ELSE [kind |-> "start_app", x |-> 0, y |-> 0]
             /\ seen' = [seen EXCEPT !.why = IF Focused(a.activity) THEN "focused" ELSE "foreground",
                                     !.launched = @ \/ ~Focused(a.activity),
                                     !.lockedAtCall = FALSE, !.everLocked = FALSE, !.steps = 0,
                                     !.checks = 0, !.lastLocked = FALSE, !.sampled = FALSE, !.scn = "none", !.sawLock = FALSE]
             /\ IF req.auto_tap
                THEN Call("tap_burst", "g_true") /\ rv' = rv
                ELSE Return(TRUE)
        ELSE /\ pc' = "g_stop" /\ act' = NoAct /\ UNCHANGED <<stack, rv>>
             /\ seen' = [NoUnlock(seen) EXCEPT !.scn = "none", !.sawLock = FALSE]
    /\ i' = 0 /\ j' = 0 /\ t' = 0 /\ t0' = 0
    /\ UNCHANGED <<fixed, req, config, status, success, result, adbLost, cancel>>

\* Mutant: the launch step returns what the tap sequence returned
TapsResult(v) == v

\* self._perform_startup_taps(); return True -- whatever the tap sequence
\* returned
IgnoreTaps(v) == TRUE

GTrue ==
    /\ pc = "g_true"
    /\ Return(IgnoreTaps(rv))
    /\ seen' = [seen EXCEPT !.probes = 0]
    /\ i' = 0 /\ j' = 0 /\ t' = 0 /\ t0' = 0 /\ act' = NoAct
    /\ UNCHANGED <<fixed, req, config, status, success, result, adbLost, cancel>>

\* self.adb.stop_app(PACKAGE_NAME); time.sleep(2)
GStop ==
    /\ pc = "g_stop"
    /\ act' = [kind |-> "stop_app", x |-> 0, y |-> 0]
    /\ pc' = "g_start"
    /\ UNCHANGED <<fixed, req, config, stack, rv, status, success, i, j, t, t0, result,
                   adbLost, cancel, seen>>

\* self.adb.start_app(PACKAGE_NAME) -- it returns True whatever adb answers;
\* without wait_for_ready: return True
GStart ==
    /\ pc = "g_start"
    /\ act' = [kind |-> "start_app", x |-> 0, y |-> 0]
    /\ IF req.wait_for_ready
       THEN pc' = "g_wait" /\ seen' = [seen EXCEPT !.launched = TRUE] /\ UNCHANGED <<stack, rv>>
       ELSE Return(TRUE) /\ seen' = [seen EXCEPT !.launched = TRUE, !.why = "no_wait"]
    /\ t' = 0
    /\ UNCHANGED <<fixed, req, config, status, success, i, j, t0, result, adbLost, cancel>>

\* wait_for_game_ready: a timeout of start_game's wait returns False
GWait ==
    /\ pc = "g_wait"
    /\ IF TimedOut(t, TIMEOUT_APP_START)
       THEN Return(FALSE) /\ seen' = Why("not_ready") /\ t' = 0
       ELSE \E a \in AppAnswers :
            IF a.running /\ Focused(a.activity)
            THEN pc' = "g_quick" /\ t' = 0 /\ UNCHANGED <<stack, rv, seen>>
            ELSE t' = t + 20 /\ UNCHANGED <<pc, stack, rv, seen>>
    /\ act' = NoAct
    /\ UNCHANGED <<fixed, req, config, status, success, i, j, t0, result, adbLost, cancel>>

\* if self.is_in_main_game(): return True; if auto_tap: the tap sequence
GQuick ==
    /\ pc = "g_quick"
    /\ \E in \in MainAnswers :
        IF is_in_main_game(ui, in)
        THEN Return(TRUE) /\ seen' = [Checked(in) EXCEPT !.why = "quick"]
        ELSE /\ seen' = Checked(in)
             /\ rv' = rv
             /\ IF req.auto_tap THEN Call("tap_burst", "g_taps_ret")
                ELSE pc' = "g_final" /\ stack' = stack
    /\ i' = 0 /\ j' = 0 /\ t' = 0 /\ t0' = 0 /\ act' = NoAct
    /\ UNCHANGED <<fixed, req, config, status, success, result, adbLost, cancel>>

\* if self._perform_startup_taps(): return True
GTapsRet ==
    /\ pc = "g_taps_ret"
    /\ IF rv THEN Return(TRUE) /\ seen' = [Why("taps") EXCEPT !.probes = 0]
       ELSE pc' = "g_final" /\ UNCHANGED <<stack, rv>> /\ seen' = [seen EXCEPT !.probes = 0]
    /\ i' = 0 /\ j' = 0 /\ t' = 0 /\ t0' = 0 /\ act' = NoAct
    /\ UNCHANGED <<fixed, req, config, status, success, result, adbLost, cancel>>

\* for i in range(10): if self.is_in_main_game(): return True; sleep(1)
\* -- and after the loop the unconfirmed return
GFinal ==
    /\ pc = "g_final"
    /\ \E in \in MainAnswers :
        IF is_in_main_game(ui, in)
        THEN Return(TRUE) /\ seen' = [Checked(in) EXCEPT !.why = "final"] /\ i' = 0
        ELSE IF i + 1 < 10
        THEN i' = i + 1 /\ seen' = Checked(in) /\ UNCHANGED <<pc, stack, rv>>
        ELSE Return(UnconfirmedReturn) /\ seen' = [Checked(in) EXCEPT !.why = "unconfirmed"] /\ i' = 0
    /\ act' = NoAct
    /\ UNCHANGED <<fixed, req, config, status, success, j, t, t0, result, adbLost, cancel>>

(***************************************************************************)
(* POST /api/rok/start (servers/main.py, start_game)                       *)
(***************************************************************************)

\* What the desktop answers to one classifier call of get_status: no
\* session, a plain, black, locked or icon-filled desktop, no capture. The
\* icon-filled desktop shows its window at the origin, where xwininfo finds it.
Desk(session, capture) ==
    [weston |-> TRUE, threw |-> FALSE, session |-> session, xwin |-> <<>>,
     capture |-> capture]

Desktops ==
    <<Desk(FALSE, <<GreyDesk>>), Desk(TRUE, <<GreyDesk>>), Desk(TRUE, <<BlackDesk>>),
      Desk(TRUE, <<LockDesk>>), [Desk(TRUE, <<IconDesk>>) EXCEPT !.xwin = <<WestonDefGeom>>],
      Desk(TRUE, <<>>)>>

\* The document of the run: every element, and an unlock sequence of two clicks, verified after each attempt
SequenceDoc ==
    <<[geom |-> <<UIDefGeom>>, black_screen |-> <<EmptyBlack>>,
       button_unlock |-> <<EmptyUnlock>>,
       unlock_sequence |->
           <<[steps |-> TwoClicks, max_attempts |-> <<>>, verify_after_each |-> <<TRUE>>]>>]>>

\* The classifier called with configuration cfg on desktop d
Classify(cfg, d) ==
    detect_weston_screen_state(
        [weston |-> d.weston, threw |-> d.threw, cfg |-> cfg, xwin |-> d.xwin,
         capture |-> d.capture, session |-> d.session])

\* The configuration of the run, and what the classifier returns under it
\* on each desktop (computed once)
RunConfig == LoadConfig(SequenceDoc)

RunScreens == [k \in 1..Len(Desktops) |-> Classify(RunConfig, Desktops[k])]

\* in: [weston, waydroid, desk]: is_weston_running(), is_waydroid_running()
\* and the desktop the classifier call meets
StatusInputs == [weston : BOOLEAN, waydroid : BOOLEAN, desk : 1..Len(Desktops)]

\* WestonController.get_status: the three entries start_game reads
get_status(in, cfg) ==
    [weston   |-> in.weston,
     waydroid |-> in.waydroid,
     screen   |-> IF ~in.weston THEN "unknown"
                  ELSE IF cfg = RunConfig THEN RunScreens[in.desk]
                  ELSE Classify(cfg, Desktops[in.desk])]

\* The configuration after get_status: the classifier reloads it
Reloaded(in) == IF in.weston THEN LoadConfig(doc) ELSE config

\* is_notification_panel_shown: "" from adb names no overlay
PanelAnswers == IF adbLost THEN {FALSE} ELSE BOOLEAN

Back == [kind |-> "keyevent", x |-> 4, y |-> 0]

\* raise HTTPException(500): the run ends with a failure
Failure == result' = "failure" /\ pc' = "done"

\* Step 1, and the test of Step 2
MStatus ==
    /\ pc = "m_status"
    /\ \E in \in StatusInputs :
        \E cfg \in {Reloaded(in)} : \E s \in {get_status(in, cfg)} :
            /\ config' = cfg
            /\ status' = s
            /\ IF ~s.weston THEN Call("start_weston", "m_weston_ret")
               ELSE pc' = "m_waydroid" /\ stack' = stack
            /\ seen' = [seen EXCEPT !.fresh = TRUE,
                                    !.scn = IF ~s.waydroid THEN "A1"
                                            ELSE IF s.weston /\ s.screen = "black" THEN "B1"
                                            ELSE "none"]
    /\ act' = NoAct
    /\ UNCHANGED <<fixed, req, rv, success, i, j, t, t0, result, adbLost, cancel>>

\* Step 2 after start_weston: fail, or sleep(2) and refresh screen_state
MWestonRet ==
    /\ pc = "m_weston_ret"
    /\ IF ~rv THEN Failure /\ UNCHANGED <<config, status>>
       ELSE \E in \in StatusInputs :
            \E cfg \in {Reloaded(in)} :
                /\ config' = cfg
                /\ status' = [status EXCEPT !.screen = get_status(in, cfg).screen]
                /\ pc' = "m_waydroid" /\ result' = result
    /\ act' = NoAct
    /\ t' = 0
    /\ UNCHANGED <<fixed, req, stack, rv, success, i, j, t0, adbLost, cancel, seen>>

\* Step 3: if not waydroid_running: start_waydroid
MWaydroid ==
    /\ pc = "m_waydroid"
    /\ IF ~status.waydroid THEN Call("start_waydroid", "m_waydroid_ret")
       ELSE pc' = "m_handle" /\ stack' = stack
    /\ act' = NoAct
    /\ UNCHANGED <<fixed, req, config, rv, status, success, i, j, t, t0, result,
                   adbLost, cancel, seen>>

\* Step 3 after start_waydroid: fail, or sleep(5) and refresh screen_state
MWaydroidRet ==
    /\ pc = "m_waydroid_ret"
    /\ IF ~rv THEN Failure /\ UNCHANGED <<config, status, seen>>
       ELSE \E in \in StatusInputs :
            \E cfg \in {Reloaded(in)} : \E new \in {get_status(in, cfg).screen} :
                /\ config' = cfg
                /\ status' = [status EXCEPT !.screen = new]
                /\ seen' = [seen EXCEPT !.fresh = TRUE,
                                        !.scn = IF @ = "A1" /\ new = "empty" THEN "A2" ELSE "none"]
                /\ pc' = "m_handle" /\ result' = result
    /\ act' = NoAct
    /\ t' = 0
    /\ UNCHANGED <<fixed, req, stack, rv, success, i, j, t0, adbLost, cancel>>

\* Step 4: empty -> start_waydroid; loading -> the loading wait
MHandle ==
    /\ pc = "m_handle"
    /\ IF status.screen = "empty" THEN Call("start_waydroid", "m_empty_ret")
       ELSE IF status.screen = "loading" THEN pc' = "m_loading" /\ stack' = stack
       ELSE pc' = "m_wake" /\ stack' = stack
    /\ seen' = [seen EXCEPT !.sawLock = (status.screen = "lock")]
    /\ i' = 0 /\ act' = NoAct
    /\ UNCHANGED <<fixed, req, config, rv, status, success, j, t, t0, result,
                   adbLost, cancel>>

\* Step 4, empty, after start_waydroid: fail, or sleep(5)
MEmptyRet ==
    /\ pc = "m_empty_ret"
    /\ IF ~rv THEN Failure /\ seen' = seen
       ELSE pc' = "m_wake" /\ result' = result /\ seen' = [seen EXCEPT !.fresh = FALSE]
    /\ act' = NoAct
    /\ UNCHANGED <<fixed, req, config, stack, rv, status, success, i, j, t, t0, adbLost, cancel>>

HandledNever(new) == FALSE

\* elif new_state in ["black", "lock"]: screen_state = new_state; break
Handled(new) == new \in {"black", "lock"}

\* for i in range(60): sleep(1); get_status; break on loaded, black or lock
MLoadingPoll ==
    /\ pc = "m_loading"
    /\ \E in \in StatusInputs :
        \E cfg \in {Reloaded(in)} : \E new \in {get_status(in, cfg).screen} :
            /\ config' = cfg
            /\ IF new = "loaded" THEN pc' = "m_wake" /\ i' = 0 /\ status' = status
               ELSE IF Handled(new)
               THEN pc' = "m_wake" /\ i' = 0 /\ status' = [status EXCEPT !.screen = new]
               ELSE IF i + 1 < 60 THEN pc' = pc /\ i' = i + 1 /\ status' = status
               ELSE pc' = "m_wake" /\ i' = 0 /\ status' = status
            /\ seen' = [seen EXCEPT !.fresh = TRUE,
                                    !.polled = IF new \in {"loaded", "black", "lock"}
                                               THEN new ELSE "other",
                                    !.sawLock = (new = "lock")]
    /\ act' = NoAct
    /\ UNCHANGED <<fixed, req, stack, rv, success, j, t, t0, result, adbLost, cancel>>

\* if screen_state == "black" / elif "lock": adb tap(512, 284); sleep(2)
MWake ==
    /\ pc = "m_wake"
    /\ IF status.screen = "black" THEN act' = Tap(512, 284) /\ pc' = "m_black"
       ELSE IF status.screen = "lock" THEN act' = Tap(512, 284) /\ pc' = "m_verify"
       ELSE act' = NoAct /\ pc' = "m_launch"
    /\ UNCHANGED <<fixed, req, config, stack, rv, status, success, i, j, t, t0, result,
                   adbLost, cancel, seen>>

\* black: get_status after the wake tap; if lock appeared, tap again
MBlack ==
    /\ pc = "m_black"
    /\ \E in \in StatusInputs :
        \E cfg \in {Reloaded(in)} : \E new \in {get_status(in, cfg).screen} :
            /\ config' = cfg
            /\ status' = [status EXCEPT !.screen = new]
            /\ pc' = IF new = "lock" THEN "m_lock_tap" ELSE "m_verify"
            /\ seen' = [seen EXCEPT !.fresh = TRUE, !.scn = IF @ = "B1" /\ new = "lock" THEN "B2" ELSE "none",
                                    !.sawLock = (new = "lock")]
    /\ act' = NoAct
    /\ UNCHANGED <<fixed, req, stack, rv, success, i, j, t, t0, result, adbLost, cancel>>

MLockTap ==
    /\ pc = "m_lock_tap"
    /\ act' = Tap(512, 284)
    /\ pc' = "m_verify"
    /\ UNCHANGED <<fixed, req, config, stack, rv, status, success, i, j, t, t0, result,
                   adbLost, cancel, seen>>

\* Verify loaded: get_status, whatever it returns
MVerify ==
    /\ pc = "m_verify"
    /\ \E in \in StatusInputs :
        \E cfg \in {Reloaded(in)} : \E new \in {get_status(in, cfg).screen} :
            /\ config' = cfg
            /\ status' = [status EXCEPT !.screen = new]
            /\ seen' = [seen EXCEPT !.fresh = TRUE, !.scn = IF @ = "B2" /\ new = "loaded" THEN "B" ELSE "none"]
    /\ pc' = "m_launch"
    /\ act' = NoAct
    /\ UNCHANGED <<fixed, req, stack, rv, success, i, j, t, t0, result, adbLost, cancel>>

StartsGameLoaded(screen) == screen = "loaded"

\* Step 5 follows the screen handling with no test of screen_state, which
\* is only logged: "Final screen state: ..., starting ROK game..."
StartsGame(screen) == TRUE

\* Step 5: success = game_controller.start_game(wait_for_ready, auto_tap,
\* force_restart), with the arguments of the request; the locals of the
\* screen handling are not read again
MLaunch ==
    /\ pc = "m_launch"
    /\ IF StartsGame(status.screen)
       THEN Call("g_ensure", "m_launch_ret") /\ result' = result
       ELSE Failure /\ stack' = stack
    /\ status' = NoStatus
    /\ req' \in [wait_for_ready : BOOLEAN, auto_tap : BOOLEAN, force_restart : BOOLEAN]
    /\ seen' = [seen EXCEPT !.lostAtLaunch = adbLost, !.fresh = FALSE, !.polled = "none",
                            !.atLaunch = status.screen]
    /\ act' = NoAct
    /\ UNCHANGED <<fixed, config, rv, success, i, j, t, t0, adbLost, cancel>>

\* Step 6: sleep(10), then the overlay watch
MLaunchRet ==
    /\ pc = "m_launch_ret"
    /\ success' = rv
    /\ req' = DefReq
    /\ pc' = "m_watch"
    /\ i' = 0 /\ j' = 0 /\ t' = 0 /\ t0' = 0 /\ act' = NoAct
    /\ UNCHANGED <<fixed, config, stack, rv, status, result, adbLost, cancel, seen>>

\* for check_count in range(18): if is_notification_panel_shown(): ...
\* t is the time since the overlay check of the round
MWatch ==
    /\ pc = "m_watch"
    /\ \E shown \in PanelAnswers :
        /\ pc' = IF shown THEN "m_close" ELSE "m_watch_main"
        /\ seen' = [seen EXCEPT !.panel = IF shown THEN "detected" ELSE "none", !.backs = 0,
                                !.looked = TRUE]
    /\ t' = 0
    /\ act' = NoAct
    /\ UNCHANGED <<fixed, req, config, stack, rv, status, success, i, j, t0, result,
                   adbLost, cancel>>

\* Mutant: one dismiss per round, whatever the re-verification says
RetryNever(shown) == FALSE

\* else (the panel is still shown after the BACK press): try again
Retry(shown) == shown

\* The BACK inputs of the watch so far, with n more
Sent(n) == IF seen.sent = <<>> THEN <<>> ELSE <<seen.sent[1] + n>>

\* close_notification_panel() (BACK, sleep(1), a check whose answer is
\* dropped); sleep(2); if the panel is still shown, the same once more
MClose ==
    /\ pc = "m_close"
    /\ act' = Back
    /\ \E shown \in PanelAnswers :
        /\ pc' = IF Retry(shown) THEN "m_close_again" ELSE "m_watch_main"
        /\ seen' = [seen EXCEPT !.panel = IF shown THEN "again" ELSE "closed",
                                !.backs = @ + 1, !.sent = Sent(1)]
    /\ t' = t + 30
    /\ UNCHANGED <<fixed, req, config, stack, rv, status, success, i, j, t0, result,
                   adbLost, cancel>>

MCloseAgain ==
    /\ pc = "m_close_again"
    /\ act' = Back
    /\ pc' = "m_watch_main"
    /\ seen' = [seen EXCEPT !.backs = @ + 1, !.sent = Sent(1)]
    /\ t' = t + 30
    /\ UNCHANGED <<fixed, req, config, stack, rv, status, success, i, j, t0, result,
                   adbLost, cancel>>

\* Mutant: a watch whose round counter does not advance
SameCheck(k) == k

\* check_count of the next round of: for check_count in range(18)
NextCheck(k) == k + 1

\* if game_controller.is_in_main_game(): break; sleep(5)
MWatchMain ==
    /\ pc = "m_watch_main"
    /\ \E in \in MainAnswers :
        IF is_in_main_game(ui, in)
        THEN pc' = "m_result" /\ i' = 0 /\ t' = 0 /\ seen' = [Checked(in) EXCEPT !.passed = TRUE]
        ELSE IF NextCheck(i) < 18
        THEN pc' = "m_watch" /\ i' = NextCheck(i) /\ t' = t + 50 /\ seen' = Checked(in)
        ELSE pc' = "m_result" /\ i' = 0 /\ t' = 0 /\ seen' = Checked(in)
    /\ act' = NoAct
    /\ UNCHANGED <<fixed, req, config, stack, rv, status, success, j, t0, result,
                   adbLost, cancel>>

\* if success: return the success document; else raise HTTPException(500)
MResult ==
    /\ pc = "m_result"
    /\ result' = IF success THEN "success" ELSE "failure"
    /\ pc' = "done"
    /\ act' = NoAct
    /\ UNCHANGED <<fixed, req, config, stack, rv, status, success, i, j, t, t0,
                   adbLost, cancel, seen>>

\* The adb transport is lost, and stays lost
LoseAdb ==
    /\ result = "none"
    /\ ~adbLost
    /\ adbLost' = TRUE
    /\ UNCHANGED <<fixed, req, config, pc, stack, rv, status, success, i, j, t, t0,
                   result, act, cancel, seen>>

\* The caller of the endpoint asks the run to stop
RequestCancel ==
    /\ result = "none"
    /\ ~cancel
    /\ cancel' = TRUE
    /\ UNCHANGED <<fixed, req, config, pc, stack, rv, status, success, i, j, t, t0,
                   result, act, adbLost, seen>>

\* One request of POST /api/rok/start, after the controllers were built
Init ==
    /\ doc = SequenceDoc
    /\ config = LoadConfig(doc)
    /\ ui = [weston |-> UILoadWeston(doc), menu |-> EmptyMenu, tap_to_start |-> <<>>]
    /\ cin = NoCin /\ out = "none"
    /\ req = DefReq
    /\ pc = "m_status" /\ stack = <<>> /\ rv = FALSE /\ status = NoStatus
    /\ success = FALSE /\ i = 0 /\ j = 0 /\ t = 0 /\ t0 = 0
    /\ result = "none" /\ act = NoAct /\ impl = "GameController" /\ smp = NoSmp /\ btn = <<>>
    /\ adbLost = FALSE /\ cancel = FALSE /\ seen = NoSeen

start_game ==
    \/ MStatus \/ MWestonRet \/ MWaydroid \/ MWaydroidRet \/ MHandle \/ MEmptyRet
    \/ MLoadingPoll \/ MWake \/ MBlack \/ MLockTap \/ MVerify \/ MLaunch
    \/ MLaunchRet \/ MWatch \/ MClose \/ MCloseAgain \/ MWatchMain \/ MResult

supervisors ==
    \/ StartWeston \/ StartWestonPoll \/ StartWaydroid \/ StartWaydroidPoll
    \/ GStartWaydroid \/ GStartWaydroidPoll

game_start ==
    \/ GEnsure \/ GEnsureRet \/ GLock \/ GRunning \/ GTrue \/ GStop \/ GStart
    \/ GWait \/ GQuick \/ GTapsRet \/ GFinal

\* The overlay watch on its own, after a launch step that returned either
\* value
InitWatch ==
    /\ doc = SequenceDoc
    /\ config = LoadConfig(doc)
    /\ ui = [weston |-> UILoadWeston(doc), menu |-> EmptyMenu, tap_to_start |-> <<>>]
    /\ cin = NoCin /\ out = "none"
    /\ req = DefReq
    /\ pc = "m_watch" /\ stack = <<>> /\ rv = FALSE /\ status = NoStatus
    /\ success \in BOOLEAN /\ i = 0 /\ j = 0 /\ t = 0 /\ t0 = 0
    /\ result = "none" /\ act = NoAct /\ impl = "GameController" /\ smp = NoSmp /\ btn = <<>>
    /\ adbLost = FALSE /\ cancel = FALSE /\ seen = [NoSeen EXCEPT !.sent = <<0>>]

NextWatch == MWatch \/ MClose \/ MCloseAgain \/ MWatchMain \/ MResult \/ LoseAdb

SpecWatch == InitWatch /\ [][NextWatch]_vars

\* Every step of the program
Step == start_game \/ supervisors \/ game_start \/ unlock_weston \/ perform_startup_taps

Next == Step \/ LoseAdb \/ RequestCancel

Spec == Init /\ [][Next]_vars

\* The request handler runs to its end: no step of it waits for anything
\* but its own sleeps
FairSpec == Spec /\ WF_vars(Step)

(***************************************************************************)
(* Two calls of the classifier, or of the lock check, with anything        *)
(* between them                                                            *)
(***************************************************************************)

\* The documents of the two calls: every default, no black-screen element,
\* no button_unlock element
TwiceDocs ==
    {MkDoc(<<EmptyBlack>>, <<EmptyUnlock>>), MkDoc(<<>>, <<EmptyUnlock>>),
     MkDoc(<<EmptyBlack>>, <<>>)}

TwiceUIs == {[weston |-> UILoadWeston(d), menu |-> EmptyMenu, tap_to_start |-> <<>>] : d \in TwiceDocs}

\* A plain, a black, a locked and an icon-filled desktop, or no capture
TwiceCaptures == {<<GreyDesk>>, <<BlackDesk>>, <<LockDesk>>, <<IconDesk>>, <<>>}

\* What the two calls are answered: the session up or not and the window
\* where the configuration says or where xwininfo finds it, one call that
\* raises, one without compositor
TwiceInputs ==
    [weston : {TRUE}, threw : {FALSE}, session : BOOLEAN,
     xwin : {<<>>, <<UIDefGeom>>}, capture : TwiceCaptures]
    \cup {[weston |-> TRUE, threw |-> TRUE, session |-> TRUE, xwin |-> <<>>, capture |-> <<GreyDesk>>],
          [weston |-> FALSE, threw |-> FALSE, session |-> TRUE, xwin |-> <<>>, capture |-> <<GreyDesk>>]}

\* The lock check reads neither is_weston_running nor is_waydroid_running
TwiceLockInputs ==
    [weston : {TRUE}, threw : BOOLEAN, session : {TRUE},
     xwin : {<<>>, <<WestonDefGeom>>}, capture : TwiceCaptures]

\* The first call: the controller may hold another configuration than the
\* file (edited since it was read), the UIConfig another than the file too
InitTwice ==
    /\ doc \in TwiceDocs
    /\ \/ /\ pc = "classify"
          /\ cin \in TwiceInputs
          /\ config \in {LoadConfig(d) : d \in TwiceDocs}
          /\ ui = [weston |-> UILoadWeston(doc), menu |-> EmptyMenu, tap_to_start |-> <<>>]
       \/ /\ pc = "lockcheck"
          /\ cin \in TwiceLockInputs
          /\ config = LoadConfig(doc)
          /\ ui \in TwiceUIs
    /\ out = "none"
    /\ IdleCtl

\* One call of is_weston_locked on the UIConfig the controller holds
LockCall ==
    /\ pc = "lockcheck"
    /\ out = "none"
    /\ out' = IF is_weston_locked(ui, [threw |-> cin.threw, xwin |-> cin.xwin, capture |-> cin.capture])
              THEN "locked" ELSE "unlocked"
    /\ UNCHANGED <<doc, config, cin, ui, ctl, env, seen, smp>>

\* Between the calls: the file is edited, other calls of the classifier
\* reload the configuration from the file as it is then, the reload
\* endpoint replaces the UIConfig, the desktop and the processes change
Between ==
    /\ pc \in {"classify", "lockcheck"}
    /\ out # "none"
    /\ seen.first = <<>>
    /\ out' = "none"
    /\ IF pc = "classify"
       THEN /\ cin' \in TwiceInputs
            /\ doc' \in TwiceDocs
            /\ config' \in {LoadConfig(d) : d \in TwiceDocs}
            /\ ui' = ui
       ELSE /\ cin' \in TwiceLockInputs
            /\ ui' \in TwiceUIs
            /\ UNCHANGED <<doc, config>>
    /\ seen' = [seen EXCEPT !.first = <<[cin |-> cin, doc |-> doc, ui |-> ui, out |-> out,
                                         held |-> config']>>]
    /\ UNCHANGED <<ctl, env, smp>>

NextTwice == Detect \/ LockCall \/ Between

SpecTwice == InitTwice /\ [][NextTwice]_vars

(***************************************************************************)
(* The sampling loops, one offset at a time, and the calls that decide on  *)
(* their counters                                                          *)
(***************************************************************************)

Loops == {"s_black", "s_unlock", "s_menu"}

\* The frame the loop in progress samples
LoopFrame == cin.capture[1]

\* The window geometry of the loop in progress
LoopGeom == WestonGeometry(config, cin.xwin)

\* The absolute coordinates the loop in progress visits, in its order
LoopPoints ==
    CASE pc = "s_black" ->
            BlackPoints(LoopGeom.x + (LoopGeom.width \div 2), LoopGeom.y + (LoopGeom.height \div 2),
                        config.black_screen[1])
      [] pc = "s_unlock" ->
            UnlockPoints(Get(config.button_unlock[1].position, DefUnlockPos),
                         Get(config.button_unlock[1].sample_area, DefUnlockArea))
      [] OTHER ->
            MenuPoints(get_menu_button_position(ui), Get(ui.menu.offsets, DefMenuOffsets))

\* The colour range of the loop in progress
LoopRange ==
    CASE pc = "s_black" -> Get(config.black_screen[1].color_range, DefBlackColor)
      [] pc = "s_unlock" -> Get(config.button_unlock[1].color_range, DefUnlockColor)
      [] OTHER -> Get(ui.menu.color_range, DefMenuColor)

\* One iteration of a loop body: if the coordinate is in the frame, read the
\* pixel, count it when it is in the range, count the sample
LoopStep(pts, cr) ==
    /\ smp.k <= Len(pts)
    /\ smp' = IF InBounds(LoopFrame, pts[smp.k])
              THEN [k |-> smp.k + 1,
                    matched |-> IF InRange(Pixel(LoopFrame, pts[smp.k]), cr)
                                THEN smp.matched + 1 ELSE smp.matched,
                    total |-> smp.total + 1]
              ELSE [smp EXCEPT !.k = @ + 1]
    /\ UNCHANGED <<cls, ui, ctl, env, seen>>

\* Check 1 of the classifier: black_count, total_samples
BlackLoop == pc = "s_black" /\ LoopStep(LoopPoints, LoopRange)

\* Check 2 of the classifier: green_count, lock_samples
UnlockLoop == pc = "s_unlock" /\ LoopStep(LoopPoints, LoopRange)

\* Check 3 of is_in_main_game: blue_count, total_samples
MenuLoop == pc = "s_menu" /\ LoopStep(LoopPoints, LoopRange)

\* Frames of the black-screen loop: the centre painted in the darkest and
\* in the lightest black, in a colour one step too light, a frame that ends
\* in the grid, one that ends at the centre column, one that holds no sample
BlackLoopFrames ==
    {MkFrame(1100, 700, Grey, 0, Black0, 0, 0), MkFrame(1100, 700, Grey, 7, Black0, 0, 0),
     MkFrame(1100, 700, Grey, 25, Black10, 0, 0), MkFrame(1100, 700, Grey, 25, Dark11, 0, 0),
     MkFrame(513, 700, Grey, 7, Black0, 0, 0), MkFrame(512, 300, Black0, 0, Black0, 0, 0),
     MkFrame(100, 100, Black0, 0, Black0, 0, 0)}

\* Frames of the unlock-button loop: no, one, two green samples, a green
\* frame that ends at the last column or row of the box, one that holds no
\* sample
UnlockLoopFrames ==
    {MkFrame(1100, 700, Grey, 0, Black0, 0, 0), MkFrame(1100, 700, Grey, 0, Black0, 1, 0),
     MkFrame(1100, 700, Grey, 0, Black0, 2, 0), MkFrame(130, 700, Green, 0, Black0, 0, 0),
     MkFrame(1100, 105, Green, 0, Black0, 0, 0), MkFrame(100, 100, Green, 0, Black0, 0, 0)}

\* Screenshots of the menu loop: no, one, four blue samples, a blue
\* screenshot that ends at the centre column of the marker, one that holds
\* no sample
MenuLoopShots ==
    {MenuShot(0), MenuShot(1), MenuShot(4),
     [w |-> 990, h |-> 568, bg |-> Blue, px |-> <<>>], [w |-> 100, h |-> 100, bg |-> Blue, px |-> <<>>]}

\* ui_rok_button.json: no menu_main element, min_pixels 0, a marker at the
\* corner of the screen
MenuDocs ==
    {EmptyMenu, [EmptyMenu EXCEPT !.min_pixels = <<0>>],
     [EmptyMenu EXCEPT !.position = <<[x |-> 1, y |-> 1]>>]}

LoopInput(xwin, f) ==
    [weston |-> TRUE, threw |-> FALSE, session |-> TRUE, xwin |-> xwin, capture |-> <<f>>]

\* A loop at its first offset
InitLoops ==
    /\ \/ /\ pc = "s_black"
          /\ doc \in {MkDoc(<<EmptyBlack>>, <<EmptyUnlock>>), MkDoc(<<CustomBlack>>, <<EmptyUnlock>>)}
          /\ cin \in {LoopInput(w, f) : w \in {<<>>, <<UIDefGeom>>}, f \in BlackLoopFrames}
          /\ ui = [weston |-> UILoadWeston(doc), menu |-> EmptyMenu, tap_to_start |-> <<>>]
       \/ /\ pc = "s_unlock"
          /\ doc \in {MkDoc(<<EmptyBlack>>, <<EmptyUnlock>>),
                      MkDoc(<<EmptyBlack>>, <<[EmptyUnlock EXCEPT !.position = <<[x |-> 0, y |-> 0]>>]>>)}
          /\ cin \in {LoopInput(<<>>, f) : f \in UnlockLoopFrames}
          /\ ui = [weston |-> UILoadWeston(doc), menu |-> EmptyMenu, tap_to_start |-> <<>>]
       \/ /\ pc = "s_menu"
          /\ doc = MkDoc(<<EmptyBlack>>, <<EmptyUnlock>>)
          /\ cin \in {LoopInput(<<>>, f) : f \in MenuLoopShots}
          /\ \E md \in MenuDocs : ui = [weston |-> UILoadWeston(doc), menu |-> md, tap_to_start |-> <<>>]
    /\ config = LoadConfig(doc)
    /\ out = "none"
    /\ IdleCtl

\* What the device answers to one main-game check on its own
MainCallInputs ==
    [running : {TRUE}, activity : {"game"}, shot : {<<s>> : s \in MenuLoopShots}, threw : {FALSE}]
    \cup MainInputs

\* One call of is_in_main_game
MainCall ==
    /\ pc = "maincheck"
    /\ out = "none"
    /\ out' = IF is_in_main_game(ui, cin) THEN "main" ELSE "not_main"
    /\ UNCHANGED <<doc, config, cin, ui, ctl, env, seen, smp>>

\* A call of the lock check or of the main-game check about to be made
InitCalls ==
    /\ \/ /\ pc = "lockcheck"
          /\ doc \in Docs
          /\ cin \in {[weston |-> TRUE, threw |-> FALSE, session |-> TRUE, xwin |-> w, capture |-> <<f>>] :
                        w \in {<<>>, <<WestonDefGeom>>},
                        f \in BlackLoopFrames \cup UnlockLoopFrames}
          /\ ui = [weston |-> UILoadWeston(doc), menu |-> EmptyMenu, tap_to_start |-> <<>>]
       \/ /\ pc = "maincheck"
          /\ doc = MkDoc(<<EmptyBlack>>, <<EmptyUnlock>>)
          /\ cin \in MainCallInputs
          /\ \E md \in MenuDocs : ui = [weston |-> UILoadWeston(doc), menu |-> md, tap_to_start |-> <<>>]
    /\ config = LoadConfig(doc)
    /\ out = "none"
    /\ IdleCtl

InitSampling == InitLoops \/ InitCalls \/ InitClassify

NextSampling == BlackLoop \/ UnlockLoop \/ MenuLoop \/ Detect \/ LockCall \/ MainCall

SpecSampling == InitSampling /\ [][NextSampling]_vars

(***************************************************************************)
(* Reloading the configuration: UIConfig.reload through reload_ui_config,  *)
(* and WestonController.reload_config                                      *)
(***************************************************************************)

\* self._configs = {}: every accessor falls back to its defaults
NoConfigs == [weston |-> EmptyWestonConfig, menu |-> EmptyMenu, tap_to_start |-> <<>>]

\* UIConfig._configs with both files loaded
LoadedConfigs(wfile, bfile) ==
    [weston |-> UILoadWeston(wfile), menu |-> UILoadMenu(bfile), tap_to_start |-> <<>>]

\* What opening and parsing one file does: the key is set (to {} when the
\* file is missing or no JSON), or an exception that _load_all_configs does
\* not catch (no permission, no UTF-8, a directory) leaves the method
LoadOutcomes == {"set", "raise"}

\* ui_weston.json and ui_rok_button.json as they were loaded and as they
\* are now on disk
ReloadDocs == {<<>>, MkDoc(<<EmptyBlack>>, <<EmptyUnlock>>), MkDoc(<<CustomBlack>>, <<>>)}

ReloadButtons == {<<>>, <<EmptyMenu>>, <<[EmptyMenu EXCEPT !.min_pixels = <<2>>]>>}

InitReload ==
    /\ doc \in ReloadDocs
    /\ \E d0 \in ReloadDocs, b0 \in ReloadButtons :
        /\ ui = LoadedConfigs(d0, b0)
        /\ config = LoadConfig(d0)
    /\ pc \in {"r_reload", "w_reload"}
    /\ cin = NoCin /\ out = "none"
    /\ stack = <<>> /\ rv = FALSE /\ req = DefReq /\ status = NoStatus
    /\ success = FALSE /\ i = 0 /\ j = 0 /\ t = 0 /\ t0 = 0
    /\ result = "none" /\ act = NoAct /\ impl = "GameController"
    /\ adbLost = FALSE /\ cancel = FALSE /\ seen = NoSeen /\ smp = NoSmp
    /\ btn \in ReloadButtons

\* reload(): self._configs = {}
RClear ==
    /\ pc = "r_reload"
    /\ ui' = NoConfigs
    /\ seen' = [seen EXCEPT !.old = <<ui>>]
    /\ pc' = "r_weston"
    /\ UNCHANGED <<cls, ctl_but_pc, env, smp>>

\* _load_all_configs, "weston": ui_weston.json
RLoadWeston ==
    /\ pc = "r_weston"
    /\ \E o \in LoadOutcomes :
        IF o = "set" THEN ui' = [ui EXCEPT !.weston = UILoadWeston(doc)] /\ pc' = "r_button"
        ELSE ui' = ui /\ pc' = "r_raised"
    /\ UNCHANGED <<cls, ctl_but_pc, env, seen, smp>>

\* _load_all_configs, "rok_button": ui_rok_button.json
RLoadButton ==
    /\ pc = "r_button"
    /\ \E o \in LoadOutcomes :
        IF o = "set" THEN ui' = [ui EXCEPT !.menu = UILoadMenu(btn)] /\ pc' = "r_unit"
        ELSE ui' = ui /\ pc' = "r_raised"
    /\ UNCHANGED <<cls, ctl_but_pc, env, seen, smp>>

\* _load_all_configs, "rok_unit": ui_rok_unit.json, which no accessor of
\* the model reads
RLoadUnit ==
    /\ pc = "r_unit"
    /\ \E o \in LoadOutcomes : pc' = IF o = "set" THEN "r_done" ELSE "r_raised"
    /\ UNCHANGED <<cls, ui, ctl_but_pc, env, seen, smp>>

\* WestonController.reload_config: _load_config assigns self.config once,
\* to the document or, on any exception, to the default configuration
WReload ==
    /\ pc = "w_reload"
    /\ config' = reload_config(config, doc)
    /\ pc' = "w_done"
    /\ UNCHANGED <<doc, cin, out, ui, ctl_but_pc, env, seen, smp>>

NextReload == RClear \/ RLoadWeston \/ RLoadButton \/ RLoadUnit \/ WReload

SpecReload == InitReload /\ [][NextReload]_vars

(***************************************************************************)
(* GameController.restart_game                                             *)
(***************************************************************************)

\* adb.stop_app returns True whatever adb answers: end_game(force=True)
end_game == TRUE

\* if not self.ensure_waydroid_running(): return False
REnsure ==
    /\ pc = "r_ensure"
    /\ \E running \in BOOLEAN :
        IF running THEN pc' = "r_lock" /\ stack' = stack
        ELSE Call("g_start_waydroid", "r_ensure_ret")
    /\ act' = NoAct
    /\ UNCHANGED <<fixed, req, config, rv, status, success, i, j, t, t0, result,
                   adbLost, cancel, seen>>

REnsureRet ==
    /\ pc = "r_ensure_ret"
    /\ IF rv THEN pc' = "r_lock" /\ UNCHANGED <<stack, rv, seen>>
       ELSE Return(FALSE) /\ seen' = Why("no_session")
    /\ act' = NoAct /\ t' = 0
    /\ UNCHANGED <<fixed, req, config, status, success, i, j, t0, result, adbLost, cancel>>

\* if self.is_weston_locked(): self._unlock_weston()
RLock ==
    /\ pc = "r_lock"
    /\ \E in \in LockInputs :
        /\ seen' = [NoUnlock(seen) EXCEPT !.lockedAtCall = is_weston_locked(ui, in)]
        /\ IF LockTest(is_weston_locked(ui, in))
           THEN Call("unlock", "r_end")
           ELSE pc' = "r_end" /\ stack' = stack
    /\ i' = 0 /\ j' = 0 /\ t' = 0 /\ act' = NoAct
    /\ UNCHANGED <<fixed, req, config, rv, status, success, t0, result, adbLost, cancel>>

\* if not self.end_game(force=True): return False; time.sleep(3);
\* return self.start_game()
REnd ==
    /\ pc = "r_end"
    /\ act' = [kind |-> "stop_app", x |-> 0, y |-> 0]
    /\ IF ~end_game THEN Return(FALSE)
       ELSE pc' = "g_ensure" /\ UNCHANGED <<stack, rv>>
    /\ seen' = NoUnlock(seen)
    /\ i' = 0 /\ j' = 0 /\ t' = 0
    /\ UNCHANGED <<fixed, req, config, status, success, t0, result, adbLost, cancel>>

restart_game == REnsure \/ REnsureRet \/ RLock \/ REnd

\* restart_game called on its own, with the defaults of start_game
InitRestart ==
    /\ doc = SequenceDoc
    /\ config = LoadConfig(doc)
    /\ ui = [weston |-> UILoadWeston(doc), menu |-> EmptyMenu, tap_to_start |-> <<>>]
    /\ cin = NoCin /\ out = "none"
    /\ req = DefReq
    /\ pc = "r_ensure" /\ stack = <<"returned">> /\ rv = FALSE /\ status = NoStatus
    /\ success = FALSE /\ i = 0 /\ j = 0 /\ t = 0 /\ t0 = 0
    /\ result = "none" /\ act = NoAct /\ impl = "GameController" /\ smp = NoSmp /\ btn = <<>>
    /\ adbLost = FALSE /\ cancel = FALSE /\ seen = NoSeen

NextRestart ==
    \/ restart_game \/ GStartWaydroid \/ GStartWaydroidPoll \/ game_start
    \/ unlock_weston \/ perform_startup_taps \/ LoseAdb

SpecRestart == InitRestart /\ [][NextRestart]_vars
(***************************************************************************)
(* The main-game check, gate by gate: GameController.is_in_main_game and   *)
(* RoKUIDetector.is_in_main_game, the check of RoKActions                  *)
(***************************************************************************)

\* A screenshot smaller than the menu marker's position
SmallShot == [w |-> 800, h |-> 480, bg |-> Blue, px |-> <<>>]

\* Menu configurations: every default, a threshold of two samples, one of
\* zero, and a marker of one blue sample
MenuUIs ==
    {[weston |-> EmptyWestonConfig, menu |-> m, tap_to_start |-> <<>>] :
        m \in {EmptyMenu, [EmptyMenu EXCEPT !.min_pixels = <<2>>],
               [EmptyMenu EXCEPT !.min_pixels = <<0>>],
               [EmptyMenu EXCEPT !.offsets = <<<<0>>>>]}}

Gate(name, answer) == [seen EXCEPT !.gates = Append(@, [gate |-> name, ans |-> answer])]

\* Check 1: if not self.check_game_running(): return False -- is_app_running
\* answers False when adb fails
MainProcess ==
    /\ pc = "mg_process"
    /\ \E running \in BOOLEAN :
        /\ seen' = Gate("process", IF running THEN "alive" ELSE "dead")
        /\ IF ~running THEN Return(FALSE)
           ELSE pc' = "mg_activity" /\ UNCHANGED <<stack, rv>>
    /\ UNCHANGED <<fixed, req, config, status, success, i, j, t, t0, result, act,
                   adbLost, cancel>>

\* Check 2: activity = get_current_activity(); if not activity or
\* PACKAGE_NAME not in activity: return False
MainActivity ==
    /\ pc = "mg_activity"
    /\ \E activity \in {"none", "other", "game"} :
        /\ seen' = Gate("activity", activity)
        /\ IF ~Focused(activity) THEN Return(FALSE)
           ELSE pc' = "mg_shot" /\ UNCHANGED <<stack, rv>>
    /\ UNCHANGED <<fixed, req, config, status, success, i, j, t, t0, result, act,
                   adbLost, cancel>>

\* Check 3: screenshot = self.adb.screenshot(); if screenshot: ... -- without
\* one: return False
MainShot ==
    /\ pc = "mg_shot"
    /\ \E shot \in {<<>>, <<MenuShot(0)>>, <<MenuShot(1)>>, <<MenuShot(2)>>, <<SmallShot>>} :
        /\ seen' = Gate("screenshot", IF shot = <<>> THEN "none" ELSE "image")
        /\ cin' = [cin EXCEPT !.capture = shot]
        /\ IF shot = <<>> THEN Return(FALSE)
           ELSE pc' = "mg_probe" /\ UNCHANGED <<stack, rv>>
    /\ UNCHANGED <<doc, out, ui, impl, smp, btn, req, config, status, success, i, j, t, t0,
                   result, act, adbLost, cancel>>

\* The samples around the menu marker and the threshold; a step that raises
\* ends in the except branch: return False
MainProbe ==
    /\ pc = "mg_probe"
    /\ \E raised \in BOOLEAN :
        /\ seen' = Gate("markers", IF raised THEN "raised"
                                   ELSE IF MenuProbe(ui, cin.capture) THEN "enough" ELSE "few")
        /\ Return(~raised /\ MenuProbe(ui, cin.capture))
    /\ UNCHANGED <<fixed, req, config, status, success, i, j, t, t0, result, act,
                   adbLost, cancel>>

main_game_check == MainProcess \/ MainActivity \/ MainShot \/ MainProbe

\* One main-game check called on its own
InitMain ==
    /\ doc = <<>> /\ config = FallbackConfig /\ out = "none" /\ cin = NoCin
    /\ ui \in MenuUIs
    /\ stack = <<"returned">> /\ rv = FALSE /\ req = DefReq /\ status = NoStatus
    /\ success = FALSE /\ i = 0 /\ j = 0 /\ t = 0 /\ t0 = 0
    /\ result = "none" /\ act = NoAct /\ smp = NoSmp /\ btn = <<>>
    /\ adbLost = FALSE /\ cancel = FALSE /\ seen = NoSeen
    /\ impl \in {"GameController", "RoKActions"}
    /\ pc = "mg_process"

NextMain == main_game_check

SpecMain == InitMain /\ [][NextMain]_vars
(***************************************************************************)
(* The launch step on its own: GameController.start_game from its check of *)
(* the running game on, and RoKApp.start                                   *)
(***************************************************************************)

\* if self.is_running() and not force_restart: activity = ...; if activity
\* and PACKAGE_NAME in activity: return True
AppStart ==
    /\ pc = "app_start"
    /\ \E a \in AppAnswers :
        IF a.running /\ ~req.force_restart /\ Focused(a.activity)
        THEN Return(TRUE) /\ seen' = Why("focused")
        ELSE pc' = "app_stop" /\ UNCHANGED <<stack, rv, seen>>
    /\ act' = NoAct
    /\ UNCHANGED <<fixed, req, config, status, success, i, j, t, t0, result, adbLost, cancel>>

\* if force_restart or self.is_running(): self.stop(force=True); sleep(3)
AppStop ==
    /\ pc = "app_stop"
    /\ \E a \in AppAnswers :
        act' = IF req.force_restart \/ a.running
               THEN [kind |-> "stop_app", x |-> 0, y |-> 0] ELSE NoAct
    /\ pc' = "app_launch"
    /\ UNCHANGED <<fixed, req, config, stack, rv, status, success, i, j, t, t0, result,
                   adbLost, cancel, seen>>

\* success = self.adb.start_app(PACKAGE_NAME, MAIN_ACTIVITY) -- it returns
\* True whatever adb answers
AppLaunch ==
    /\ pc = "app_launch"
    /\ act' = [kind |-> "start_app", x |-> 0, y |-> 0]
    /\ Return(TRUE)
    /\ seen' = [seen EXCEPT !.launched = TRUE, !.why = "launched"]
    /\ UNCHANGED <<fixed, req, config, status, success, i, j, t, t0, result, adbLost, cancel>>

app_start == AppStart \/ AppStop \/ AppLaunch

\* Either launch step called on its own, with any request
InitLaunch ==
    /\ doc = <<>> /\ config = FallbackConfig /\ out = "none" /\ cin = NoCin
    /\ ui = [weston |-> EmptyWestonConfig, menu |-> EmptyMenu, tap_to_start |-> <<>>]
    /\ stack = <<"returned">> /\ rv = FALSE /\ status = NoStatus
    /\ req \in [wait_for_ready : BOOLEAN, auto_tap : BOOLEAN, force_restart : BOOLEAN]
    /\ success = FALSE /\ i = 0 /\ j = 0 /\ t = 0 /\ t0 = 0
    /\ result = "none" /\ act = NoAct /\ impl = "GameController" /\ smp = NoSmp /\ btn = <<>>
    /\ adbLost = FALSE /\ cancel = FALSE /\ seen = NoSeen
    /\ pc \in {"g_running", "app_start"}

NextLaunch ==
    \/ GRunning \/ GTrue \/ GStop \/ GStart \/ GWait \/ GQuick \/ GTapsRet \/ GFinal
    \/ perform_startup_taps \/ app_start \/ LoseAdb

SpecLaunch == InitLaunch /\ [][NextLaunch]_vars
(***************************************************************************)
(* Properties of the classifier (checked under SpecClassify)               *)
(***************************************************************************)

\* The call has been made with compositor and session up and a frame captured
Classified == out # "none" /\ cin.weston /\ ~cin.threw /\ cin.capture # <<>>

ClsFrame == cin.capture[1]

ClsGeom == Get(cin.xwin, Get(config.geom, WestonDefGeom))

\* The default black-screen region, written out: a 5 x 5 grid, 5 pixels
\* apart, around the centre of the window
DefaultGrid ==
    {<<ClsGeom.x + (ClsGeom.width \div 2) + dx, ClsGeom.y + (ClsGeom.height \div 2) + dy>> :
        dx \in {-10, -5, 0, 5, 10}, dy \in {-10, -5, 0, 5, 10}}

GridTotal == Cardinality({p \in DefaultGrid : InBounds(ClsFrame, p)})

GridBlack ==
    Cardinality({p \in DefaultGrid :
        /\ InBounds(ClsFrame, p)
        /\ \A ch \in 1..3 : 0 <= Pixel(ClsFrame, p)[ch] /\ Pixel(ClsFrame, p)[ch] <= 10})

DefaultBlackRule == Classified /\ cin.session /\ config.black_screen = <<EmptyBlack>>

\* C3 (as stated): with compositor and session running and a frame captured,
\* every frame with matched/total >= 0.8 in the default black-screen region
\* is classified 'black'.
C3_BlackAtRatio ==
    (DefaultBlackRule /\ GridTotal > 0 /\ 5 * GridBlack >= 4 * GridTotal) => out = "black"

\* C3 (amended): with the black_screen element configured, every frame with
\* matched/total strictly above 0.8 is classified 'black', and a frame with
\* matched/total exactly 0.8 is not.
C3_BlackAboveRatio ==
    DefaultBlackRule =>
        /\ (5 * GridBlack > 4 * GridTotal) => out = "black"
        /\ (GridTotal > 0 /\ 5 * GridBlack = 4 * GridTotal) => out # "black"

C3_Witness ==
    /\ DefaultBlackRule /\ out = "black"
    /\ 5 * GridBlack > 4 * GridTotal /\ GridBlack < GridTotal

\* C5 (as stated): every call made while the session is not running returns
\* 'empty', whatever the compositor liveness and the capture outcome.
C5_EmptyAlways == (out # "none" /\ ~cin.session) => out = "empty"

\* C5 (amended): a call made while the session is not running returns
\* 'empty' whatever the frame content and the configuration are, provided
\* the compositor runs, no step raised and the frame was captured.
C5_EmptyWhenCaptured == (Classified /\ ~cin.session) => out = "empty"

C5_Witness ==
    /\ Classified /\ ~cin.session /\ out = "empty"
    /\ ClsFrame.bg = Black0 /\ config.black_screen # <<>>

\* The unlock-button box, written out: 3 x 3 pixels around (129, 104)
UnlockBox == {<<129 + dx, 104 + dy>> : dx \in {-1, 0, 1}, dy \in {-1, 0, 1}}
BoxTotal == Cardinality({p \in UnlockBox : InBounds(ClsFrame, p)})
BoxGreen ==
    Cardinality({p \in UnlockBox :
        /\ InBounds(ClsFrame, p)
        /\ 130 <= Pixel(ClsFrame, p)[1] /\ Pixel(ClsFrame, p)[1] <= 145
        /\ 125 <= Pixel(ClsFrame, p)[2] /\ Pixel(ClsFrame, p)[2] <= 140
        /\ 125 <= Pixel(ClsFrame, p)[3] /\ Pixel(ClsFrame, p)[3] <= 135})

BlackRuleFires ==
    /\ config.black_screen # <<>>
    /\ BlackFires(ClsFrame, ClsGeom.x + (ClsGeom.width \div 2),
                  ClsGeom.y + (ClsGeom.height \div 2), config.black_screen[1])

UnlockRuleConfigured == Classified /\ cin.session /\ config.button_unlock # <<>>

MinPixels == Get(config.button_unlock[1].min_pixels, 1)

\* C6 (as stated): when the black-screen rule does not fire and at least
\* min_pixels in-bounds samples of the unlock-button box are green, the
\* classifier returns 'lock'.
C6_LockAtMinPixels ==
    (UnlockRuleConfigured /\ ~BlackRuleFires /\ BoxGreen >= MinPixels) => out = "lock"

\* C6 (amended): the same, provided the button_unlock element is configured
\* and at least one sample of the box lies inside the frame.
C6_LockAtMinPixelsInBounds ==
    (UnlockRuleConfigured /\ ~BlackRuleFires /\ BoxTotal > 0 /\ BoxGreen >= MinPixels)
        => out = "lock"

C6_Witness ==
    /\ UnlockRuleConfigured /\ ~BlackRuleFires /\ out = "lock"
    /\ BoxGreen = MinPixels /\ BoxGreen > 0 /\ BoxGreen < BoxTotal

(***************************************************************************)
(* Properties of the tap sequence (checked under SpecTaps)                 *)
(***************************************************************************)

\* The tap sequence has returned without any main-game check succeeding
TapsGaveUp == pc = "returned" /\ ~seen.confirmed

\* C2 (as stated): when the main-game check never succeeds, the tap sequence
\* returns False and no more than 80 s of simulated time lie between its
\* call and its return.
C2_Within80 == TapsGaveUp => (rv = FALSE /\ t <= 800)

\* C2 (amended): when the main-game check never succeeds, the tap sequence
\* returns False and exactly 89.3 s lie between its call and its return:
\* 7.5 s of initial burst before start_time is taken, 80 s of schedule and
\* 1.8 s for the click and the taps of the last checkpoint.
C2_Within893 == TapsGaveUp => (rv = FALSE /\ t = 893 /\ t - t0 = 818 /\ t0 = 75)

C2_Witness == TapsGaveUp /\ rv = FALSE /\ t > 800 /\ impl = "RoKActions"

(***************************************************************************)
(* Properties of the unlock sequencer (checked under SpecUnlock)           *)
(***************************************************************************)

\* _unlock_weston has returned from a call made while the lock check
\* reported not locked, and no lock check made inside reported locked
UnlockedCall == pc = "returned" /\ ~seen.lockedAtCall /\ ~seen.everLocked

\* The configured retry policy, written out
SeqOf == Get(ui.weston.unlock_sequence,
             [steps |-> <<>>, max_attempts |-> <<>>, verify_after_each |-> <<>>])
Attempts == Get(SeqOf.max_attempts, 2)
Verified == Get(SeqOf.verify_after_each, FALSE)

\* C4 (as stated): called while the lock check reports not locked, the
\* sequencer returns True without executing any step: no click, no sleep.
C4_NoStepWhenUnlocked == UnlockedCall => (rv = TRUE /\ seen.steps = 0 /\ t = 0)

\* C4 (amended): called while the lock check reports not locked (and keeps
\* doing so), the sequencer returns True, but only after replaying the step
\* list: once when verify_after_each is set, max_attempts times otherwise,
\* and not at all only when max_attempts is 0 or the list is empty.
C4_ReplaysWhenUnlocked ==
    UnlockedCall =>
        /\ rv = TRUE
        /\ seen.steps = IF Attempts <= 0 THEN 0
                        ELSE IF Verified THEN Len(SeqOf.steps)
                        ELSE Attempts * Len(SeqOf.steps)

C4_Witness ==
    /\ UnlockedCall /\ rv = TRUE
    /\ ~Verified /\ seen.steps = 2 * Len(SeqOf.steps) /\ seen.steps > 0 /\ t > 0

(***************************************************************************)
(* Properties of the start orchestration (checked under Spec and FairSpec) *)
(***************************************************************************)

\* The return statements of GameController.start_game behind which a
\* main-game check passed, and those that return True without one
ConfirmedReturns == {"quick", "taps", "final"}
UnconfirmedReturns == {"focused", "foreground", "no_wait", "unconfirmed"}
FalseReturns == {"no_session", "not_ready"}

AbortPcs == {"m_weston_ret", "m_waydroid_ret", "m_empty_ret", "g_ensure_ret",
             "m_launch_ret", "done"}

\* C7: once start_weston or start_waydroid has returned False the run aborts
\* with Failure: no launch, tap, click, key input or poll follows.
C7_AbortsAtOnce == seen.startFailed => (pc \in AbortPcs /\ result # "success")

\* C8: a run that has lost the adb transport, and never gets it back, does
\* not report Success (here: the transport was lost before the launch step).
C8_LostNeverSuccess == (result = "success") => ~seen.lostAtLaunch

\* The poll boundaries: the ticks of the loading wait, of the wait of the
\* tap sequence and of the overlay watch
TickPcs == {"m_loading", "tap_wait", "m_watch_main"}

\* C9: a step the run takes at a poll boundary while a cancel request is
\* pending ends the run.
C9_CancelEndsAtTick ==
    [][(cancel /\ pc \in TickPcs /\ <<pc, i, j>>' # <<pc, i, j>>) => result' # "none"]_vars

\* C10: every run terminates with a Success or Failure result.
C10_Terminates == <>(result \in {"success", "failure"})

C10_Witness == pc = "done" /\ result = "failure" /\ seen.why = "not_ready"

\* The retry policy in force (Attempts and Verified above), the configured
\* step list and the command its k-th step dispatches
Configured == SeqOf.steps

StepCommand(k) ==
    LET step == Configured[k]
        g == Get(ui.weston.geom, UIDefGeom)
        b == IF ui.weston.button_unlock = <<>> THEN DefUnlockPos
             ELSE Get(ui.weston.button_unlock[1].position, DefUnlockPos)
    IN  IF step.action # "click" THEN NoAct
        ELSE IF step.target = "center"
             THEN [kind |-> "x11_click", x |-> g.x + (g.width \div 2), y |-> g.y + (g.height \div 2)]
        ELSE IF step.target = "button_unlock"
             THEN [kind |-> "x11_click", x |-> b.x, y |-> b.y]
        ELSE NoAct

\* C18: the sequencer returns True iff the last lock check it made reported
\* not locked.  Without verify_after_each that check is the one final check
\* made after all the attempts; with it, the call returns right after the
\* first verification that reports not locked (every verification before it
\* reported locked), and the final check is made only when all of them did.
C18_FinalCheckDecides ==
    /\ (pc = "unlock" /\ seen.checks > 0) => (Verified /\ seen.lastLocked)
    /\ (pc = "returned") =>
        /\ rv = ~seen.lastLocked
        /\ seen.checks >= 1
        /\ ~Verified => seen.checks = 1
        /\ (Verified /\ seen.checks <= Attempts) =>
              (rv = TRUE /\ seen.steps = seen.checks * Len(Configured))
        /\ (Verified /\ seen.checks > Attempts) =>
              (seen.checks = (IF Attempts > 0 THEN Attempts ELSE 0) + 1
               /\ seen.steps = (IF Attempts > 0 THEN Attempts ELSE 0) * Len(Configured))

\* The attempts ran out on a locked desktop and the final check found it unlocked
C18_Witness ==
    /\ pc = "returned" /\ Verified /\ Attempts = 2 /\ seen.checks = 3
    /\ seen.everLocked /\ rv = TRUE

\* The steps dispatched so far never exceed max_attempts replays
ReplayBound ==
    seen.steps <= (IF Attempts > 0 THEN Attempts ELSE 0) * Len(Configured)

\* Each step the sequencer dispatches is the next one of the configured order
InOrder ==
    (pc = "unlock" /\ seen'.steps = seen.steps + 1) =>
        act' = StepCommand((seen.steps % Len(Configured)) + 1)

\* Once a verification has reported not locked no step is dispatched
StopsWhenUnlocked ==
    (seen.checks > 0 /\ ~seen.lastLocked) => seen'.steps = seen.steps

\* C20: one call of _unlock_weston replays the step list at most max_attempts
\* times (none at all when max_attempts is 0), each replay in the configured
\* order, and dispatches no step after a verification that reported not locked.
C20_BoundedReplay == []ReplayBound /\ [][InOrder /\ StopsWhenUnlocked]_vars

\* Three whole replays were dispatched
C20_Witness ==
    /\ pc = "returned" /\ Attempts = 3 /\ Len(Configured) = 2 /\ seen.steps = 6
    /\ act = NoAct

\* Where a start operation is after it has launched a process or the start script
Spawned ==
    {"start_weston_poll", "start_waydroid_poll", "g_start_waydroid_poll",
     "c_start_poll", "c_start_poll_adb"}

\* C17: a start operation called while its target is alive launches nothing
\* and returns True.
C17_StartIdempotent ==
    (seen.alive = <<TRUE>>) => (pc \notin Spawned /\ (pc = "returned" => rv = TRUE))

\* Where the run is once the overlay watch has ended
WatchOver == {"m_result", "done"}

\* In a round of the watch the overlay costs no BACK input when it is not
\* detected, one when the re-verification finds it gone, two when the
\* re-verification still finds it
RoundBacks ==
    (pc \in {"m_watch_main"} \cup WatchOver) =>
        seen.backs = (CASE seen.panel = "again" -> 2
                        [] seen.panel = "closed" -> 1
                        [] OTHER -> 0)

\* A main-game check of the watch that passes ends the watch
EndsAtPass == (pc = "m_watch_main" /\ seen'.passed) => pc' = "m_result"

\* Once the watch has ended there is no overlay check and no BACK input
NothingAfter ==
    (pc \in WatchOver) =>
        (pc' \in WatchOver /\ act' # Back /\ seen'.backs = seen.backs /\ seen'.panel = seen.panel)

\* C13: a round of the overlay watch in which the overlay is detected and
\* still shown at the re-verification makes exactly two BACK inputs, and the
\* watch ends at the first following main-game check that passes, with no
\* overlay check or BACK input after it.
C13_ScenarioC == []RoundBacks /\ [][EndsAtPass /\ NothingAfter]_vars

\* The run ended in the round in which the overlay was dismissed twice
C13_Witness ==
    /\ pc = "done" /\ seen.panel = "again" /\ seen.backs = 2 /\ seen.passed

\* C11: in a run whose classifications are Black, then Locked after the wake
\* tap, then Loaded, the configured unlock sequence has been run exactly once
\* when GameController.start_game comes to its test that the game runs.
C11_ScenarioB ==
    (seen.scn = "B" /\ pc = "g_running") => seen.steps = Len(Configured)

\* C12: in a run that found no container, started it and then observed
\* Empty, the classifier has been called again, after the wait that follows
\* the start of the session, when the run comes to the launch.
C12_ScenarioA ==
    (seen.scn = "A2" /\ pc = "m_launch") => seen.fresh

\* The second of two calls is over
Second == seen.first # <<>> /\ out # "none"

First == seen.first[1]

\* The configuration of the call: the file the classifier reloads, the
\* UIConfig the lock check reads
SameConfiguration == IF pc = "classify" THEN doc = First.doc ELSE ui = First.ui

\* C14 as stated: two calls on the same frame and the same configuration
\* return the same state.
C14_FrameAndConfigOnly ==
    (Second /\ cin.capture # <<>> /\ cin.capture = First.cin.capture /\ SameConfiguration)
        => out = First.out

\* C14: two calls of the classifier (and of the lock check) that are given
\* the same frame, the same configuration, the same liveness answers and
\* window geometry and the same failure return the same state, whatever the
\* controller held in memory and whatever happened between them.
C14_HistoryFree ==
    (Second /\ cin = First.cin /\ SameConfiguration) => out = First.out

\* A second call that found the desktop locked as the first did, although
\* the controller held another configuration than the file when it began
C14_Witness ==
    /\ Second /\ pc = "classify" /\ cin = First.cin /\ doc = First.doc
    /\ First.held # LoadConfig(doc) /\ out = "lock" /\ First.out = "lock"

\* The offset the loop in progress is at, its pixel, and the tests of the
\* loop body written out
AtOffset == LoopPoints[smp.k]

InsideFrame ==
    /\ 0 <= AtOffset[1] /\ AtOffset[1] < LoopFrame.w
    /\ 0 <= AtOffset[2] /\ AtOffset[2] < LoopFrame.h

EachChannelInside ==
    LET c == Pixel(LoopFrame, AtOffset)
    IN  /\ LoopRange.r[1] <= c[1] /\ c[1] <= LoopRange.r[2]
        /\ LoopRange.g[1] <= c[2] /\ c[2] <= LoopRange.g[2]
        /\ LoopRange.b[1] <= c[3] /\ c[3] <= LoopRange.b[2]

\* What one iteration does to the counters
CountsOne ==
    (pc \in Loops /\ smp'.k = smp.k + 1) =>
        /\ ~InsideFrame => (smp'.matched = smp.matched /\ smp'.total = smp.total)
        /\ InsideFrame => smp'.total = smp.total + 1
        /\ (InsideFrame /\ EachChannelInside) => smp'.matched = smp.matched + 1
        /\ (InsideFrame /\ ~EachChannelInside) => smp'.matched = smp.matched

\* matched <= total <= offsets visited <= offsets of the region, and the
\* counters of a finished loop are the ones the rules decide on
CountsBounded ==
    (pc \in Loops) =>
        /\ smp.matched <= smp.total /\ smp.total <= smp.k - 1 /\ smp.k - 1 <= Len(LoopPoints)
        /\ (smp.k = Len(LoopPoints) + 1) =>
                <<smp.matched, smp.total>> = Sample(LoopFrame, LoopPoints, LoopRange)

\* C15: in the black-screen, unlock-button and menu-marker loops an offset
\* outside the frame increments neither counter, an offset inside the frame
\* increments total, and matched iff each of the three channels lies in the
\* inclusive interval of its channel; hence matched <= total <= offsets.
C15_SamplingCounts == []CountsBounded /\ [][CountsOne]_vars

\* A finished loop that skipped offsets and matched some of its samples only
C15_Witness ==
    /\ pc \in Loops /\ smp.k = Len(LoopPoints) + 1
    /\ 0 < smp.matched /\ smp.matched < smp.total /\ smp.total < Len(LoopPoints)

\* How many offsets of a region lie inside a frame
Valid(pts, f) ==
    Cardinality({k \in 1..Len(pts) : 0 <= pts[k][1] /\ pts[k][1] < f.w /\ 0 <= pts[k][2] /\ pts[k][2] < f.h})

\* Valid samples of the black-screen, unlock-button and icon-band rules of a
\* classifier call
ClsBlackValid ==
    Valid(BlackPoints(ClsGeom.x + (ClsGeom.width \div 2), ClsGeom.y + (ClsGeom.height \div 2),
                      Get(config.black_screen, EmptyBlack)), ClsFrame)

ClsUnlockValid ==
    LET el == Get(config.button_unlock, EmptyUnlock)
    IN  Valid(UnlockPoints(Get(el.position, DefUnlockPos), Get(el.sample_area, DefUnlockArea)), ClsFrame)

ClsIconValid == Valid(IconPoints(ClsGeom), ClsFrame)

\* Valid samples of the two rules of a lock check
LockGeom == Get(cin.xwin, get_weston_window_geometry(ui))

LockBlackValid ==
    Valid(BlackPoints(LockGeom.x + (LockGeom.width \div 2), LockGeom.y + (LockGeom.height \div 2),
                      get_black_screen_detection(ui)), ClsFrame)

LockUnlockValid ==
    Valid(UnlockPoints(get_unlock_button_position(ui),
                       Get(get_unlock_button_detection(ui).sample_area, DefUnlockArea)), ClsFrame)

\* Valid samples of the menu probe of a main-game check
MenuValid ==
    Valid(MenuPoints(get_menu_button_position(ui), Get(ui.menu.offsets, DefMenuOffsets)), cin.shot[1])

\* C19: a rule with zero valid samples never counts as a match: the
\* classifier returns 'black', 'lock' or 'loaded' only with a valid sample of
\* that rule, the lock check reports locked only with a valid sample of one
\* of its two rules, and the main-game check passes only with a valid sample
\* of the menu probe, whatever the thresholds are.
C19_NoMatchWithoutSample ==
    /\ (pc = "classify" /\ out = "black") => ClsBlackValid > 0
    /\ (pc = "classify" /\ out = "lock") => ClsUnlockValid > 0
    /\ (pc = "classify" /\ out = "loaded") => ClsIconValid > 0
    /\ (pc = "lockcheck" /\ out = "locked") => (LockBlackValid > 0 \/ LockUnlockValid > 0)
    /\ (pc = "maincheck" /\ out = "main") => MenuValid > 0

\* A main-game check with min_pixels 0 and a screenshot that holds no sample
\* of the menu probe
C19_Witness ==
    /\ pc = "maincheck" /\ out = "not_main" /\ cin.running /\ cin.activity = "game"
    /\ cin.shot # <<>> /\ MenuValid = 0 /\ ui.menu.min_pixels = <<0>>

\* No reload is in progress: it has returned or raised
ReloadOver == pc \in {"r_done", "r_raised"}

\* C16: a reload replaces the in-memory configuration atomically: whoever
\* reads UIConfig once the reload is over, completed or not, finds the
\* complete old configuration or the complete new one.
C16_AtomicReload ==
    ReloadOver => ui \in {seen.old[1], LoadedConfigs(doc, btn)}


(***************************************************************************)
(* The screen handling and the overlay watch of main.py start_game         *)
(***************************************************************************)

\* The loading wait makes one more poll: it leaves "m_loading", or counts
LoadingPoll == pc = "m_loading" /\ (pc' # pc \/ i' = i + 1)

\* A poll answered Loaded, Black or Locked ends the wait, and so does the
\* 60th poll; any other poll is followed by the next one
PollStops ==
    LoadingPoll =>
        /\ seen'.polled \in {"loaded", "black", "lock"} => pc' = "m_wake"
        /\ seen'.polled \in {"black", "lock"} => status'.screen = seen'.polled
        /\ i = 59 => pc' = "m_wake"
        /\ (seen'.polled = "other" /\ i < 59) => (pc' = "m_loading" /\ i' = i + 1)

\* The loading wait is entered from the dispatch on the first state only
OneWait == (pc' = "m_loading" /\ pc # "m_loading") => pc = "m_handle"

\* After a wait that ended on Black or Locked the next step of the run is
\* the wake tap of that state's handler
HandlerNext ==
    (pc = "m_wake" /\ pc' # pc /\ seen.polled \in {"black", "lock"}) =>
        /\ act' = Tap(512, 284)
        /\ pc' = IF seen.polled = "black" THEN "m_black" ELSE "m_verify"

C22_UnlockBeforeLaunch == (pc = "g_running" /\ seen.sawLock) => seen.lockedAtCall

\* The launch step begins, on the state the screen handling ended with
LaunchFollows ==
    (pc = "m_launch" /\ pc' # pc) =>
        (pc' = "g_ensure" /\ result' = "none" /\ seen'.atLaunch = status.screen)

\* C23: whatever the classifications of the screen handling are, the run
\* goes on to GameController.start_game; only a start of the container
\* session that returns False ends a run inside the handling.
C23_AlwaysLaunches ==
    /\ [][LaunchFollows]_vars
    /\ (pc = "m_handle") ~> (pc = "g_ensure" \/ (result = "failure" /\ seen.startFailed))
    /\ (pc = "m_wake") ~> (pc = "g_ensure")

\* The launch step begins on a desktop still classified as locked
C23_Witness == pc = "g_ensure" /\ seen.atLaunch = "lock"

\* The watch is in one of its 18 rounds
Rounds == i \in 0..17

\* A BACK input is issued only in a round whose overlay check detected the
\* overlay, and a round issues at most two
BackIfDetected ==
    /\ seen.backs \in 0..2
    /\ act = Back => seen.panel \in {"closed", "again"}
    /\ (pc \in {"m_close", "m_watch_main"} /\ seen.panel \in {"none", "detected"})
           => seen.backs = 0

\* The watch has issued at most two for each round begun, and so at most
\* 36 as a whole
BacksBounded ==
    seen.sent # <<>> =>
        /\ seen.sent[1] <= 36
        /\ pc \in {"m_watch", "m_close", "m_close_again", "m_watch_main"}
               => seen.sent[1] <= 2 * (i + 1)

\* The run's outcome is what the launch step returned, dismissed or not
DismissNeverFails == pc = "done" => result = (IF success THEN "success" ELSE "failure")

C25_StopsAtConfirmation ==
    [][seen.confirmed => (~(pc = "m_watch" /\ pc' # pc) /\ act' # Back)]_vars

\* C26: when the tap-bypass of a launch that issued the launch command
\* returns, the run has made an overlay check.
C26_WatchInterleaved ==
    (pc \in {"g_taps_ret", "g_true"} /\ seen.launched) => seen.looked

(***************************************************************************)
(* The main-game checks of the tap sequence                                *)
(***************************************************************************)

\* The tap sequence returns True exactly when one of its checks did, and
\* makes no step once one has
TrueAtFirst ==
    /\ pc = "returned" => rv = seen.confirmed
    /\ seen.confirmed => pc = "returned"

\* When the click and taps of checkpoint i are sent, one check was made
\* before each checkpoint so far and one for every whole second waited:
\* 20 before the first checkpoint, 8 before each later one
ChecksBeforeTaps == pc = "tap_tap" => seen.probes = i + 20 + 8 * (i - 1)

\* A return of False follows the check made after the seventh checkpoint
FalseAfterAll == (pc = "returned" /\ ~rv) => seen.probes = 7 + 20 + 8 * 6 + 1

\* The checks of a wait are one second apart
OneSecondApart ==
    (pc = "tap_wait" /\ pc' = "tap_wait") => (t' = t + 10 /\ seen'.probes = seen.probes + 1)

\* Clicks and taps are sent only while no check has returned True
NoTapAfterTrue == act' \notin {NoAct, act} => ~seen'.confirmed

\* C27: the tap sequence checks for the main game before each of its seven
\* checkpoints, once a second while it waits for a checkpoint and once
\* after the last one; the first check that returns True makes it return
\* True with no further click or tap, and it returns False only after all
\* its checks returned False.
C27_TapChecks ==
    /\ [](TrueAtFirst /\ ChecksBeforeTaps /\ FalseAfterAll)
    /\ [][OneSecondApart /\ NoTapAfterTrue]_vars

\* The sequence returned True at a check made while it waited for the
\* third checkpoint
C27_Witness == pc = "returned" /\ rv /\ i = 3 /\ seen.probes = 35

(***************************************************************************)
(* The rules of the classifier (checked under SpecClassify)                *)
(***************************************************************************)

UnlockRuleFires ==
    /\ config.button_unlock # <<>>
    /\ UnlockFires(ClsFrame, config.button_unlock[1])

\* C28: on a captured frame the classifier tries its rules in the order
\* Empty, Black, Locked, Loading/Loaded and the first that matches decides:
\* no session gives 'empty' whatever the frame shows, a frame on which the
\* black-screen rule fires is 'black' even when the unlock-button rule
\* fires too, 'lock' needs the black-screen rule not to fire, and 'loading'
\* or 'loaded' is returned only with the session up and neither rule firing.
C28_RuleOrder ==
    Classified =>
        /\ out = "empty" <=> ~cin.session
        /\ out = "black" <=> (cin.session /\ BlackRuleFires)
        /\ out = "lock" <=> (cin.session /\ ~BlackRuleFires /\ UnlockRuleFires)
        /\ out \in {"loading", "loaded"}
               <=> (cin.session /\ ~BlackRuleFires /\ ~UnlockRuleFires)

\* A frame on which both rules fire was classified
C28_Witness ==
    Classified /\ cin.session /\ BlackRuleFires /\ UnlockRuleFires /\ out = "black"

\* The samples of the icon band that lie inside the frame, and the
\* colourful ones among them, written out: a channel above 100 and two
\* channels more than 30 apart
Band == IconPoints(ClsGeom)
BandIn == {k \in DOMAIN Band : InBounds(ClsFrame, Band[k])}
BandColourful ==
    {k \in BandIn :
        LET c == Pixel(ClsFrame, Band[k])
        IN  /\ \E ch \in 1..3 : c[ch] > 100
            /\ \E hi, lo \in 1..3 : c[hi] - c[lo] > 30}

NoEarlierRule == Classified /\ cin.session /\ ~BlackRuleFires /\ ~UnlockRuleFires

\* C29: when no earlier rule fires, the classifier returns 'loaded' exactly
\* when the icon band has a sample inside the frame and more than a tenth
\* of its samples inside the frame are colourful, and 'loading' otherwise.
C29_LoadedIffColourful ==
    NoEarlierRule =>
        /\ out = "loaded" <=>
               (Cardinality(BandIn) >= 1 /\ 10 * Cardinality(BandColourful) > Cardinality(BandIn))
        /\ out # "loaded" => out = "loading"

\* Exactly a tenth of the samples are colourful, and the desktop is loading
C29_Witness ==
    /\ NoEarlierRule /\ out = "loading"
    /\ Cardinality(BandIn) = 100 /\ Cardinality(BandColourful) = 10

\* The values the docstring of the classifier lists
ScreenStates == {"empty", "loading", "loaded", "lock", "black", "unknown"}

\* The call could not look at a frame
NoFrame == ~cin.weston \/ cin.threw \/ cin.capture = <<>>

\* C30: every call of the classifier returns one of 'empty', 'loading',
\* 'loaded', 'lock', 'black' and 'unknown', also a call in which a step
\* raised; it returns 'unknown' when the capture failed or a step raised,
\* and, besides a compositor that is down, only then.
C30_Total ==
    out # "none" =>
        /\ out \in ScreenStates
        /\ (cin.threw \/ (cin.weston /\ cin.capture = <<>>)) => out = "unknown"
        /\ out = "unknown" => NoFrame

\* A call with compositor and session up in which a step raised
C30_Witness == out = "unknown" /\ cin.weston /\ cin.session /\ cin.threw
(***************************************************************************)
(* C31: the time a session start operation takes                           *)
(***************************************************************************)

\* The poll loops of the session start operations
SessionPolls == {"start_waydroid_poll", "g_start_waydroid_poll",
                 "c_start_poll", "c_start_poll_adb"}

\* C31: every session start operation returns within 60 s plus one 5 s
\* readiness grace of its start command (t counts tenths of a second), also
\* when the session reports RUNNING and adb does not connect.
C31_StartWithin65 == pc \in SessionPolls \/ pc = "returned" => t <= 650

\* What holds of the code: WestonController.start_waydroid and
\* WaydroidContainer.start without an adb controller return within 65 s; the
\* two operations that connect adb sleep the 5 s grace in every round that
\* finds the session RUNNING, and return within 360 s.
StartWithin360 ==
    /\ pc \in {"start_waydroid_poll", "c_start_poll"} => t = 10 * i
    /\ pc \in SessionPolls => t <= 60 * i
    /\ pc = "returned" => t <= 3600

(***************************************************************************)
(* C32: what a call of the classifier or of the lock check changes         *)
(***************************************************************************)

\* A step that is one call of detect_weston_screen_state or is_weston_locked
DetectorCall == pc \in {"classify", "lockcheck"} /\ out = "none" /\ out' # "none"

\* The controller state a detector has no business with
NoCommand ==
    /\ act' = NoAct /\ act = NoAct
    /\ UNCHANGED <<doc, cin, ui, ctl, env, seen, smp>>

CallsUnlock == pc # "unlock" /\ pc' = "unlock"

\* C33: every call of _unlock_weston is made by the step that made a lock
\* check, in start_game or in restart_game, and that check returned True: no
\* other action lies between the check and the call.
C33_UnlockOnlyWhenLocked ==
    [][CallsUnlock => (pc \in {"g_lock", "r_lock"} /\ seen'.lockedAtCall)]_vars

\* The sequencer has been called by restart_game, and by the start_game that
\* follows it, on a desktop found locked
C33_Witness ==
    /\ pc = "unlock" /\ seen.lockedAtCall /\ seen.steps = 0
    /\ stack \in {<<"r_end", "returned">>, <<"g_running", "returned">>}

(***************************************************************************)
(* C34: the gates of the main-game check                                   *)
(***************************************************************************)

GateOrder == <<"process", "activity", "screenshot", "markers">>

\* The answers a gate lets pass
GatePasses == {"alive", "game", "image", "enough"}

\* The check of is_in_main_game has returned v
MainReturned(v) == pc = "returned" /\ seen.gates # <<>> /\ rv = v

\* The gates are evaluated in the order process, activity, screenshot,
\* markers, and a gate is evaluated only when every gate before it passed
GatesInOrder ==
    /\ Len(seen.gates) <= Len(GateOrder)
    /\ \A k \in 1..Len(seen.gates) :
        /\ seen.gates[k].gate = GateOrder[k]
        /\ k < Len(seen.gates) => seen.gates[k].ans \in GatePasses

\* A gate that fails, or raises, is the last one evaluated and the check
\* returns False
GateFailureIsFalse ==
    \A k \in 1..Len(seen.gates) :
        seen.gates[k].ans \notin GatePasses => (k = Len(seen.gates) /\ MainReturned(FALSE))

\* True is returned only when the process is alive, the focused activity
\* names the package, a screenshot was taken and at least min_pixels of the
\* marker samples are in the blue range
TrueOnlyThroughAll ==
    MainReturned(TRUE) =>
        /\ Len(seen.gates) = 4
        /\ seen.gates[1].ans = "alive"
        /\ seen.gates[2].ans = "game"
        /\ cin.capture # <<>>
        /\ MenuCount(ui, cin.capture[1])[1] >= Get(ui.menu.min_pixels, DefMinPixels)

\* The check gate by gate returns what is_in_main_game, the check as one
\* function of its answers, returns
AsOneFunction ==
    (pc = "returned" /\ seen.gates # <<>>) =>
        rv = is_in_main_game(ui,
                [running  |-> seen.gates[1].ans = "alive",
                 activity |-> IF Len(seen.gates) >= 2 THEN seen.gates[2].ans ELSE "none",
                 shot     |-> cin.capture,
                 threw    |-> seen.gates[Len(seen.gates)].ans = "raised"])

\* C34: the main-game check returns True only if the process is alive, the
\* focused activity names the target package, a screenshot was obtained and
\* the menu-marker samples in the blue range reach min_pixels; the gates are
\* evaluated in this order, and a gate that fails or raises yields False
\* without a later gate being evaluated.
C34_GatedCheck ==
    GatesInOrder /\ GateFailureIsFalse /\ TrueOnlyThroughAll /\ AsOneFunction

\* The check has returned True on a screenshot with two blue marker samples
\* under a threshold of two
C34_Witness ==
    /\ MainReturned(TRUE) /\ Len(seen.gates) = 4
    /\ ui.menu.min_pixels = <<2>> /\ cin.capture = <<MenuShot(2)>>

(***************************************************************************)
(* C35: the lock check and the classifier on the same frame                *)
(***************************************************************************)

\* The classifier has returned on a captured frame, compositor and session
\* running
ClassifiedFrame ==
    /\ pc = "classify" /\ out # "none"
    /\ cin.weston /\ cin.session /\ ~cin.threw /\ cin.capture # <<>>

\* What is_weston_locked returns on the frame, the window geometry and the
\* configuration file the classifier ran on
LockCheckHere ==
    is_weston_locked(ui, [threw |-> FALSE, xwin |-> cin.xwin, capture |-> cin.capture])

\* C35: on every captured frame, window geometry and configuration, with
\* compositor and session running, is_weston_locked returns True iff the
\* classifier returns 'black' or 'lock'.
C35_DetectorsAgree == ClassifiedFrame => (LockCheckHere <=> out \in {"black", "lock"})

(***************************************************************************)
(* C36: the two implementations of the tap sequence                        *)
(***************************************************************************)

\* C36: GameController._perform_startup_taps and
\* RoKActions.perform_startup_taps issue the same clicks and taps: every X11
\* click of either, the initial burst included, goes to the centre of the
\* configured window and every tap to the configured tap-to-start point.
C36_SameTargets ==
    /\ act.kind = "x11_click" => act = CenterClick(ui)
    /\ act.kind = "tap" => act = StartTap(ui)

(***************************************************************************)
(* C37: what a True of the unlock sequencer rests on                       *)
(***************************************************************************)

\* C37: _unlock_weston returns True only if its last lock check read a
\* captured frame on which neither rule fired; when the capture fails or the
\* check raises, unlock does not report success.
C37_SuccessOnEvidence ==
    (pc = "returned" /\ seen.checks > 0 /\ rv) => (seen.sampled /\ ~seen.lastLocked)

(***************************************************************************)
(* C38: the launch step on a game that is already in front                 *)
(***************************************************************************)

\* The launch step found the process running and its activity focused, and
\* no restart was asked for
InFront == seen.why = "focused"

\* C38: when the game runs, its activity is focused and force_restart is
\* false, GameController.start_game and RoKApp.start issue no stop and no
\* start command for the app, and return True.
C38_NoRelaunchInFront ==
    /\ InFront => (~req.force_restart /\ ~seen.launched
                   /\ act.kind \notin {"stop_app", "start_app"})
    /\ (InFront /\ pc = "returned") => rv

\* GameController.start_game has returned for a game in front after a tap
\* sequence that did not confirm the main screen
C38_Witness ==
    /\ InFront /\ pc = "returned" /\ rv /\ req.auto_tap /\ ~seen.confirmed
    /\ impl = "GameController"
====
